---- MODULE Spec2Model ----
(***************************************************************************)
(* Model of the ingest pipeline of video-search-editor (standalone/).      *)
(*                                                                         *)
(* Projections of the same program share this module:                      *)
(*   SpecQueue, SpecGpu, SpecG                                             *)
(*             the pipeline scheduler (queue_pipeline.py), the force       *)
(*             tasks of routes/videos.py and the model registry            *)
(*             (models.py); transcribe and index_video are followed        *)
(*             through their effects on the registry and their outcome.    *)
(*   SpecIndex index_video (index.py) statement by statement, with the     *)
(*             two stores and the SQLite write lock.                       *)
(*   SpecStore one index_video against the catalog requests of             *)
(*             routes/videos.py and the searches of search.py.             *)
(*   SpecJob   one video under a pool thread and a force task, with what   *)
(*             transcribe and index_video write to the catalog.            *)
(*   SpecChunk the chunker (chunking_v2.py) on the segments of a video.    *)
(*   SpecSearch                                                            *)
(*             search (search.py) and POST /search on what the stores      *)
(*             return: ranking, fusion, deduplication, filter.             *)
(*   SpecPending                                                           *)
(*             concurrent process-pending requests (routes/videos.py)      *)
(*             and one thread of the pool.                                 *)
(*   Spec      all of it.                                                  *)
(***************************************************************************)
EXTENDS Integers, Sequences, FiniteSets, TLC

\* ------------------------------------------------------------------ bounds
\* Videos known to the catalog.
Videos == {"a", "b"}
\* Longest backlog of submitted jobs the executor is given.
MaxTasks == 1
\* Background threads serving force-transcribe / force-index requests.
MaxForce == 1
\* Most chunks the chunker makes of one video.
MaxChunks == 2
\* Chunks per batch of index_video (the code writes batches of 64).
BatchSize == 1

\* Most sentences spoken in a video.
MaxSentences == 3
\* Characters of a word, the mark that closes a sentence included.
WordChars == 9
\* Milliseconds of silence between two sentences.
Gap == 200
\* Sentences a video is made of: the number of its words and the time it
\* takes. A short remark, a plain sentence, a long one, a short one spoken
\* over a long time, one longer than CHUNK_MAX_CHARS.
Kinds == {[words |-> 3, ms |-> 2000], [words |-> 10, ms |-> 6000],
          [words |-> 30, ms |-> 15000], [words |-> 6, ms |-> 21000],
          [words |-> 40, ms |-> 18000]}
\* Cosine similarities of neighbouring sentences, in hundredths.
Sims == {40, 70}

\* --------------------------------------------------------- program constants
\* threading.Semaphore(2)
G == 2
\* ThreadPoolExecutor(max_workers=2)
max_workers == 2

Workers == 1..max_workers
Forcers == (max_workers + 1)..(max_workers + MaxForce)
Threads == Workers \cup Forcers
\* index_video calls in flight: each holds a permit of the semaphore
Indexers == 1..G

NoVideo == "-"
\* the chunker has not been given segments / has not returned
NoInput == [read |-> FALSE, segments |-> << >>, sims |-> << >>, razdel |-> FALSE]
NoOutput == [done |-> FALSE, raised |-> FALSE, chunks |-> << >>]
\* concurrent requests of POST /videos/process-pending
MaxRequests == 2
Requests == 1..MaxRequests
NoRequest == [at |-> "idle", todo |-> {}, cur |-> NoVideo]
\* chunk ids of the corpus a search runs on, the values of top_k, and the
\* ways the chunks lie in time and in the videos
Ids == {"A", "B", "C", "D"}
TopKs == {1, 2, 4}
Layouts == 1..4
VideoMaps == 1..2
NoSearch == [asked |-> FALSE]
NoAnswer == [done |-> FALSE, results |-> << >>]
NoError == "-"
\* videos.status of a video without a row in videos
NoRow == "no row"
\* The two messages of queue_remove (the first one contains "Не найдено").
MsgNotFound == "not found in queue"
MsgProcessing == "cannot remove: already processing"
MsgImport == "ImportError"
\* what transcribe returns
NoResult == "-"
MsgVideoNotFound == "video not found"
MsgExists == "segments exist, delete them to transcribe again"
MsgDecode == "transcription error"
MsgSegments == "RAW segments"

VARIABLES
    queue,          \* _queue: video_id -> entry (status, error)
    tasks,          \* work queue of _executor: submitted video ids, FIFO
    sem,            \* free permits of _gpu_semaphore (gpu_lock is the same object)
    permits,        \* the size the semaphore was built with
    pc,             \* position of every thread
    vid,            \* video_id argument of every thread
    held,           \* permits every thread holds
    failed,         \* stage that raised in the thread's current run
    cache,          \* models._cache: keys loaded
    resp,           \* last answer of DELETE /api/queue/{video_id}
    segments,       \* per video: chunks its raw segments yield (0: no segments)
    status,         \* videos.status
    vectors,        \* records of the ChromaDB collection
    fts,            \* committed rows of segments_fts
    writer,         \* connection holding SQLite's write lock (0: none)
    pending,        \* rows inserted by the open write transaction
    ipc,            \* position of every index_video call
    ivid,           \* its video_id
    rows,           \* chunks of the run (from the segments it read)
    written,        \* chunks of the run already upserted
    lastrun,        \* history: per video, the chunks of the run that was
                    \* the last to work on it, when it ran alone on the
                    \* present segments and returned its summary (0: none)
    before,         \* history: per call, whether it has been the only one
                    \* on its video and its segments, and the keys of the
                    \* video in the two stores when it came right after a
                    \* run of lastrun
    clips,          \* videos with a row in clips
    found,          \* results of the last search
    result,         \* per thread: what its last transcribe call returned
    kin,            \* what the chunker is given: the raw segments of a video,
                    \* the similarities the chunk model yields, HAS_RAZDEL
    kout,           \* what the chunker returned
    pp,             \* requests of POST /videos/process-pending: position in the
                    \* handler, rows still to visit, video about to be enqueued
    sreq,           \* a request of POST /search with what the two stores
                    \* answer to its query
    sres            \* the response to it

svars == <<queue, tasks, sem, permits, pc, vid, held, failed, cache, resp>>
ivars == <<segments, status, vectors, fts, writer, pending, ipc, ivid, rows, written,
          lastrun, before>>
\* state of the request handlers added to the catalog group
xvars == <<pp, sreq, sres>>
cvars == <<clips, found, result, kin, kout, xvars>>

\* ------------------------------------------------------------- queue map
NewEntry == [status |-> "waiting", error |-> NoError]

\* _queue_set(video_id, **kwargs) on queue map q
QueueSet(q, v, kwargs) ==
    LET base == IF v \in DOMAIN q THEN q[v] ELSE NewEntry
        upd  == [f \in {"status", "error"} |->
                    IF f \in DOMAIN kwargs THEN kwargs[f] ELSE base[f]]
    IN  [u \in DOMAIN q \cup {v} |-> IF u = v THEN upd ELSE q[u]]

\* _queue.pop(video_id)
QueuePop(q, v) == [u \in DOMAIN q \ {v} |-> q[u]]

Terminal == {"done", "error"}

\* api_queue_remove: 404 if "Не найдено" in err else 409
StatusCode(ok, err) == IF ok THEN 200 ELSE IF err = MsgNotFound THEN 404 ELSE 409

Goto(t, where) == pc' = [pc EXCEPT ![t] = where]

\* ------------------------------------------------ requests (caller threads)
\* enqueue_pipeline(video_id, title)
enqueue_pipeline(v) ==
    /\ Len(tasks) < MaxTasks
    /\ queue' = QueueSet(queue, v, [status |-> "waiting"])
    /\ tasks' = Append(tasks, v)
    /\ UNCHANGED <<sem, permits, pc, vid, held, failed, cache, resp>>
    /\ UNCHANGED ivars
    /\ UNCHANGED cvars

\* queue_remove without the test for a running job
queue_remove_unchecked(v) ==
    /\ IF v \notin DOMAIN queue
         THEN /\ resp' = [ok |-> FALSE, err |-> MsgNotFound,
                          code |-> StatusCode(FALSE, MsgNotFound)]
              /\ queue' = queue
         ELSE /\ resp' = [ok |-> TRUE, err |-> NoError,
                          code |-> StatusCode(TRUE, NoError)]
              /\ queue' = QueuePop(queue, v)
    /\ UNCHANGED <<tasks, sem, permits, pc, vid, held, failed, cache>>
    /\ UNCHANGED ivars
    /\ UNCHANGED cvars

\* queue_remove(video_id) as answered by api_queue_remove
queue_remove(v) ==
    /\ IF v \notin DOMAIN queue
         THEN /\ resp' = [ok |-> FALSE, err |-> MsgNotFound,
                          code |-> StatusCode(FALSE, MsgNotFound)]
              /\ queue' = queue
         ELSE IF queue[v].status = "processing"
         THEN /\ resp' = [ok |-> FALSE, err |-> MsgProcessing,
                          code |-> StatusCode(FALSE, MsgProcessing)]
              /\ queue' = queue
         ELSE /\ resp' = [ok |-> TRUE, err |-> NoError,
                          code |-> StatusCode(TRUE, NoError)]
              /\ queue' = QueuePop(queue, v)
    /\ UNCHANGED <<tasks, sem, permits, pc, vid, held, failed, cache>>
    /\ UNCHANGED ivars
    /\ UNCHANGED cvars

\* queue_clear(): drops the terminal entries
queue_clear ==
    /\ \E v \in DOMAIN queue : queue[v].status \in Terminal
    /\ queue' = [u \in {x \in DOMAIN queue : queue[x].status \notin Terminal}
                    |-> queue[u]]
    /\ UNCHANGED <<tasks, sem, permits, pc, vid, held, failed, cache, resp>>
    /\ UNCHANGED ivars
    /\ UNCHANGED cvars

\* search -> _vector_search: get_embed_model() loads the embedder on first use
vector_search ==
    /\ "embed" \notin cache
    /\ cache' = cache \cup {"embed"}
    /\ UNCHANGED <<queue, tasks, sem, permits, pc, vid, held, failed, resp>>
    /\ UNCHANGED ivars
    /\ UNCHANGED cvars

\* api_transcribe / api_index: a background thread is given _do
api_transcribe(t, v) ==
    /\ pc[t] = "idle"
    /\ Goto(t, "f_acquire_t")
    /\ vid' = [vid EXCEPT ![t] = v]
    /\ UNCHANGED <<queue, tasks, sem, permits, held, failed, cache, resp>>
    /\ UNCHANGED ivars
    /\ UNCHANGED cvars

api_index(t, v) ==
    /\ pc[t] = "idle"
    /\ Goto(t, "f_acquire_i")
    /\ vid' = [vid EXCEPT ![t] = v]
    /\ UNCHANGED <<queue, tasks, sem, permits, held, failed, cache, resp>>
    /\ UNCHANGED ivars
    /\ UNCHANGED cvars

\* ------------------------------------------------------------- semaphore
\* an acquire that does not wait for a free permit
AcquireNoWait(t) ==
    /\ sem' = sem - 1
    /\ held' = [held EXCEPT ![t] = @ + 1]

\* Semaphore.acquire(): blocks while no permit is free
Acquire(t) ==
    /\ sem > 0
    /\ sem' = sem - 1
    /\ held' = [held EXCEPT ![t] = @ + 1]

\* Semaphore.release() when the with-block is left
Release(t) ==
    /\ sem' = sem + 1
    /\ held' = [held EXCEPT ![t] = @ - 1]

\* ------------------------------------------------- _run_queued_pipeline
\* a pool thread takes the oldest submitted job
ExecutorTake(t) ==
    /\ pc[t] = "idle"
    /\ tasks # <<>>
    /\ tasks' = Tail(tasks)
    /\ vid' = [vid EXCEPT ![t] = Head(tasks)]
    /\ Goto(t, "check")
    /\ UNCHANGED <<queue, sem, permits, held, failed, cache, resp>>
    /\ UNCHANGED ivars
    /\ UNCHANGED cvars

\* with _queue_lock: if video_id not in _queue: return
CheckQueued(t) ==
    /\ pc[t] = "check"
    /\ IF vid[t] \in DOMAIN queue
         THEN Goto(t, "set_processing") /\ vid' = vid
         ELSE Goto(t, "idle") /\ vid' = [vid EXCEPT ![t] = NoVideo]
    /\ UNCHANGED <<queue, tasks, sem, permits, held, failed, cache, resp>>
    /\ UNCHANGED ivars
    /\ UNCHANGED cvars

\* _queue_set(video_id, status="processing", started_at=...)
SetProcessing(t) ==
    /\ pc[t] = "set_processing"
    /\ queue' = QueueSet(queue, vid[t], [status |-> "processing"])
    /\ Goto(t, "acquire_outer")
    /\ UNCHANGED <<tasks, sem, permits, vid, held, failed, cache, resp>>
    /\ UNCHANGED ivars
    /\ UNCHANGED cvars

\* with _gpu_semaphore:  then _run_pipeline starts: its imports succeed
AcquireOuter(t) ==
    /\ pc[t] = "acquire_outer"
    /\ Acquire(t)
    /\ Goto(t, "rp_acquire")
    /\ UNCHANGED <<queue, tasks, permits, vid, failed, cache, resp>>
    /\ UNCHANGED ivars
    /\ UNCHANGED cvars

\* with _gpu_semaphore:  then _run_pipeline starts: import time / torch / gc
\* stand before its try, so a failing import leaves it as an exception
AcquireOuterImportError(t) ==
    /\ pc[t] = "acquire_outer"
    /\ Acquire(t)
    /\ failed' = [failed EXCEPT ![t] = "import"]
    /\ Goto(t, "set_error")
    /\ UNCHANGED <<queue, tasks, permits, vid, cache, resp>>
    /\ UNCHANGED ivars
    /\ UNCHANGED cvars

\* _queue_set(video_id, status="done")
SetDone(t) ==
    /\ pc[t] = "set_done"
    /\ queue' = QueueSet(queue, vid[t], [status |-> "done"])
    /\ Goto(t, "release_outer")
    /\ UNCHANGED <<tasks, sem, permits, vid, held, failed, cache, resp>>
    /\ UNCHANGED ivars
    /\ UNCHANGED cvars

\* except Exception as e: _queue_set(video_id, status="error", error=str(e))
SetError(t) ==
    /\ pc[t] = "set_error"
    /\ queue' = QueueSet(queue, vid[t], [status |-> "error", error |-> MsgImport])
    /\ Goto(t, "release_outer")
    /\ UNCHANGED <<tasks, sem, permits, vid, held, failed, cache, resp>>
    /\ UNCHANGED ivars
    /\ UNCHANGED cvars

\* leaving `with _gpu_semaphore`; the pool thread is free again
ReleaseOuter(t) ==
    /\ pc[t] = "release_outer"
    /\ Release(t)
    /\ Goto(t, "idle")
    /\ vid' = [vid EXCEPT ![t] = NoVideo]
    /\ failed' = [failed EXCEPT ![t] = "none"]
    /\ UNCHANGED <<queue, tasks, permits, cache, resp>>
    /\ UNCHANGED ivars
    /\ UNCHANGED cvars

\* ---------------------------------------------------------- model registry
get_whisper(c) == c \cup {"whisper"}
release_whisper(c) == c \ {"whisper"}
get_chunk_model(c) == c \cup {"chunk"}
get_embed_model(c) == c \cup {"embed"}

\* ---------------------------------------------------------- _run_pipeline
\* with gpu_lock:  (gpu_lock is _gpu_semaphore, which this thread already
\* holds once)
AcquireGpuLock(t) ==
    /\ pc[t] = "rp_acquire"
    /\ Acquire(t)
    /\ Goto(t, "t_start")
    /\ UNCHANGED <<queue, tasks, permits, vid, failed, cache, resp>>
    /\ UNCHANGED ivars
    /\ UNCHANGED cvars

\* release_whisper() after transcribe, still inside gpu_lock
PipelineReleaseWhisper(t) ==
    /\ pc[t] = "rp_release_whisper"
    /\ cache' = release_whisper(cache)
    /\ Goto(t, "rp_release_lock")
    /\ UNCHANGED <<queue, tasks, sem, permits, vid, held, failed, resp>>
    /\ UNCHANGED ivars
    /\ UNCHANGED cvars

\* variant: leaving `with gpu_lock` gives back every permit the thread holds
ReleaseGpuLockAll(t) ==
    /\ pc[t] = "rp_release_lock"
    /\ sem' = sem + held[t]
    /\ held' = [held EXCEPT ![t] = 0]
    /\ Goto(t, "i_start")
    /\ UNCHANGED <<queue, tasks, permits, vid, failed, cache, resp>>
    /\ UNCHANGED ivars
    /\ UNCHANGED cvars

\* leaving `with gpu_lock`; index_video follows outside of it
ReleaseGpuLock(t) ==
    /\ pc[t] = "rp_release_lock"
    /\ Release(t)
    /\ Goto(t, "i_start")
    /\ UNCHANGED <<queue, tasks, permits, vid, failed, cache, resp>>
    /\ UNCHANGED ivars
    /\ UNCHANGED cvars

\* an exception of transcribe unwinds `with gpu_lock`
UnwindGpuLock(t) ==
    /\ pc[t] = "rp_exit_lock"
    /\ Release(t)
    /\ Goto(t, "rp_except")
    /\ UNCHANGED <<queue, tasks, permits, vid, failed, cache, resp>>
    /\ UNCHANGED ivars
    /\ UNCHANGED cvars

\* except Exception: log, release_whisper(); _run_pipeline returns normally
PipelineExcept(t) ==
    /\ pc[t] = "rp_except"
    /\ cache' = release_whisper(cache)
    /\ Goto(t, "set_done")
    /\ UNCHANGED <<queue, tasks, sem, permits, vid, held, failed, resp>>
    /\ UNCHANGED ivars
    /\ UNCHANGED cvars

\* ------------------------------------------------------------- transcribe
\* where transcribe / index_video hand control back to
AfterTranscribe(t) == IF t \in Workers THEN "rp_release_whisper" ELSE "f_release"
TranscribeRaised(t) == IF t \in Workers THEN "rp_exit_lock" ELSE "f_release"
AfterIndex(t) == IF t \in Workers THEN "set_done" ELSE "f_release"
IndexRaised(t) == IF t \in Workers THEN "rp_except" ELSE "f_release"

\* early returns: unknown video, missing file, segments present, Whisper
\* failed to load (all return a message)
TranscribeSkip(t) ==
    /\ pc[t] = "t_start"
    /\ Goto(t, AfterTranscribe(t))
    /\ UNCHANGED <<queue, tasks, sem, permits, vid, held, failed, cache, resp>>
    /\ UNCHANGED ivars
    /\ UNCHANGED cvars

\* model = get_whisper()
TranscribeLoad(t) ==
    /\ pc[t] = "t_start"
    /\ cache' = get_whisper(cache)
    /\ Goto(t, "t_run")
    /\ UNCHANGED <<queue, tasks, sem, permits, vid, held, failed, resp>>
    /\ UNCHANGED ivars
    /\ UNCHANGED cvars

\* decoding done (segments stored) or decoding failed (message returned):
\* both paths call release_whisper() before returning
TranscribeReturn(t) ==
    /\ pc[t] = "t_run"
    /\ cache' = release_whisper(cache)
    /\ Goto(t, AfterTranscribe(t))
    /\ UNCHANGED <<queue, tasks, sem, permits, vid, held, failed, resp>>
    /\ UNCHANGED ivars
    /\ UNCHANGED cvars

\* an exception outside the inner try (stat of the file, the INSERT/UPDATE/commit
\* after decoding): nothing releases the model here
TranscribeRaise(t) ==
    /\ pc[t] = "t_run"
    /\ failed' = [failed EXCEPT ![t] = "transcribe"]
    /\ Goto(t, TranscribeRaised(t))
    /\ UNCHANGED <<queue, tasks, sem, permits, vid, held, cache, resp>>
    /\ UNCHANGED ivars
    /\ UNCHANGED cvars

\* ------------------------------------------- index_video (registry, outcome)
\* if not rows: return "Нет сегментов ..."
IndexNoSegments(t) ==
    /\ pc[t] = "i_start"
    /\ Goto(t, AfterIndex(t))
    /\ UNCHANGED <<queue, tasks, sem, permits, vid, held, failed, cache, resp>>
    /\ UNCHANGED ivars
    /\ UNCHANGED cvars

\* chunks = semantic_chunk(segments): get_chunk_model() once there are more
\* than two sentences
IndexChunk(t) ==
    /\ pc[t] = "i_start"
    /\ \E many \in BOOLEAN :
          cache' = IF many THEN get_chunk_model(cache) ELSE cache
    /\ Goto(t, "i_embed")
    /\ UNCHANGED <<queue, tasks, sem, permits, vid, held, failed, resp>>
    /\ UNCHANGED ivars
    /\ UNCHANGED cvars

\* model = get_embed_model(); the batches are encoded and written, status
\* becomes indexed
IndexWrite(t) ==
    /\ pc[t] = "i_embed"
    /\ cache' = get_embed_model(cache)
    /\ Goto(t, AfterIndex(t))
    /\ UNCHANGED <<queue, tasks, sem, permits, vid, held, failed, resp>>
    /\ UNCHANGED ivars
    /\ UNCHANGED cvars

\* model = get_embed_model(); encode, upsert or commit raises
IndexRaise(t) ==
    /\ pc[t] = "i_embed"
    /\ cache' = get_embed_model(cache)
    /\ failed' = [failed EXCEPT ![t] = "index"]
    /\ Goto(t, IndexRaised(t))
    /\ UNCHANGED <<queue, tasks, sem, permits, vid, held, resp>>
    /\ UNCHANGED ivars
    /\ UNCHANGED cvars

\* ------------------------------------------------ force tasks (_do closures)
\* with gpu_lock: transcribe_mod.transcribe(video_id)
ForceAcquireTranscribe(t) ==
    /\ pc[t] = "f_acquire_t"
    /\ Acquire(t)
    /\ Goto(t, "t_start")
    /\ UNCHANGED <<queue, tasks, permits, vid, failed, cache, resp>>
    /\ UNCHANGED ivars
    /\ UNCHANGED cvars

\* with gpu_lock: index_mod.index_video(video_id)
ForceAcquireIndex(t) ==
    /\ pc[t] = "f_acquire_i"
    /\ Acquire(t)
    /\ Goto(t, "i_start")
    /\ UNCHANGED <<queue, tasks, permits, vid, failed, cache, resp>>
    /\ UNCHANGED ivars
    /\ UNCHANGED cvars

\* leaving `with gpu_lock` (normally or by an exception)
ForceRelease(t) ==
    /\ pc[t] = "f_release"
    /\ Release(t)
    /\ Goto(t, "idle")
    /\ vid' = [vid EXCEPT ![t] = NoVideo]
    /\ failed' = [failed EXCEPT ![t] = "none"]
    /\ UNCHANGED <<queue, tasks, permits, cache, resp>>
    /\ UNCHANGED ivars
    /\ UNCHANGED cvars

\* ------------------------------------------------- index.py: index_video
\* The id of chunk i of video v, f"{video_id}-sem-{i}": the pair is kept, the
\* video of a record is its first component.
ChunkId(v, i) == <<v, i>>
ChunkIds(v, n) == {ChunkId(v, i) : i \in 1..n}
\* WHERE video_id = v
Of(store, v) == {r \in store : r[1] = v}
Min(a, b) == IF a < b THEN a ELSE b
\* all_items[i : i + batch_size] after k items have been written
Batch(v, n, k) == {ChunkId(v, i) : i \in (k + 1)..Min(k + BatchSize, n)}

IGoto(t, where) == ipc' = [ipc EXCEPT ![t] = where]

\* history of a call that does not follow a run on the same segments
NoBase == [alone |-> FALSE, set |-> FALSE, vec |-> {}, fts |-> {}]
\* the calls working on video v lose their history
Forget(v) == [u \in Indexers |-> IF ivid[u] = v THEN NoBase ELSE before[u]]

\* leaving index_video: the locals of the call are gone
IndexLeave(t) ==
    /\ IGoto(t, "idle")
    /\ ivid' = [ivid EXCEPT ![t] = NoVideo]
    /\ rows' = [rows EXCEPT ![t] = 0]
    /\ written' = [written EXCEPT ![t] = 0]
    /\ before' = [before EXCEPT ![t] = NoBase]

\* index_video(video_id) is called (pipeline job or force task)
index_video(t, v) ==
    /\ ipc[t] = "idle"
    /\ IGoto(t, "select")
    /\ ivid' = [ivid EXCEPT ![t] = v]
    /\ before' = [Forget(v) EXCEPT ![t] =
                   IF \E u \in Indexers \ {t} : ivid[u] = v
                   THEN NoBase
                   ELSE IF segments[v] > 0 /\ lastrun[v] = segments[v]
                   THEN [alone |-> TRUE, set |-> TRUE,
                         vec |-> Of(vectors, v), fts |-> Of(fts, v)]
                   ELSE [NoBase EXCEPT !.alone = TRUE]]
    /\ UNCHANGED <<segments, status, vectors, fts, writer, pending, rows, written, lastrun>>
    /\ UNCHANGED svars
    /\ UNCHANGED cvars

\* rows = SELECT ... FROM segments WHERE video_id=?
SelectSegments(t) ==
    /\ ipc[t] = "select"
    /\ segments[ivid[t]] > 0
    /\ rows' = [rows EXCEPT ![t] = segments[ivid[t]]]
    /\ IGoto(t, "clean_fts")
    /\ UNCHANGED <<segments, status, vectors, fts, writer, pending, ivid, written, lastrun, before>>
    /\ UNCHANGED svars
    /\ UNCHANGED cvars

\* variant: the old FTS rows are deleted before the test of the rows
NoSegmentsCleaned(t) ==
    /\ ipc[t] = "select"
    /\ segments[ivid[t]] = 0
    /\ IndexLeave(t)
    /\ fts' = fts \ Of(fts, ivid[t])
    /\ UNCHANGED <<segments, status, vectors, writer, pending, lastrun>>
    /\ UNCHANGED svars
    /\ UNCHANGED cvars

\* if not rows: return
NoSegments(t) ==
    /\ ipc[t] = "select"
    /\ segments[ivid[t]] = 0
    /\ IndexLeave(t)
    /\ UNCHANGED <<segments, status, vectors, fts, writer, pending, lastrun>>
    /\ UNCHANGED svars
    /\ UNCHANGED cvars

\* _clean_old_fts: DELETE FROM segments_fts WHERE video_id = ?; commit
clean_old_fts(t) ==
    /\ ipc[t] = "clean_fts"
    /\ writer = 0
    /\ fts' = fts \ Of(fts, ivid[t])
    /\ IGoto(t, "clean_vectors")
    /\ UNCHANGED <<segments, status, vectors, writer, pending, ivid, rows, written, lastrun, before>>
    /\ UNCHANGED svars
    /\ UNCHANGED cvars

\* _clean_old_fts while another connection holds the write lock past the
\* busy timeout: the DELETE raises, the handler logs a warning and returns
clean_old_fts_locked(t) ==
    /\ ipc[t] = "clean_fts"
    /\ writer # 0
    /\ IGoto(t, "clean_vectors")
    /\ UNCHANGED <<segments, status, vectors, fts, writer, pending, ivid, rows, written, lastrun, before>>
    /\ UNCHANGED svars
    /\ UNCHANGED cvars

\* collection.delete(where video_id); then the chunks are computed from the
\* rows read and the embedding model is fetched
DeleteVectors(t) ==
    /\ ipc[t] = "clean_vectors"
    /\ vectors' = vectors \ Of(vectors, ivid[t])
    /\ IGoto(t, "encode")
    /\ UNCHANGED <<segments, status, fts, writer, pending, ivid, rows, written, lastrun, before>>
    /\ UNCHANGED svars
    /\ UNCHANGED cvars

\* model.encode(batch); collection.upsert(batch)
UpsertVectors(t) ==
    /\ ipc[t] = "encode"
    /\ vectors' = vectors \cup Batch(ivid[t], rows[t], written[t])
    /\ IGoto(t, "upsert_fts")
    /\ UNCHANGED <<segments, status, fts, writer, pending, ivid, rows, written, lastrun, before>>
    /\ UNCHANGED svars
    /\ UNCHANGED cvars

\* model.encode raises: index_video is left with the exception; the
\* connection goes with it and its open transaction is rolled back
EncodeRaise(t) ==
    /\ ipc[t] = "encode"
    /\ IndexLeave(t)
    /\ writer' = IF writer = t THEN 0 ELSE writer
    /\ pending' = IF writer = t THEN {} ELSE pending
    /\ lastrun' = [lastrun EXCEPT ![ivid[t]] = 0]
    /\ UNCHANGED <<segments, status, vectors, fts>>
    /\ UNCHANGED svars
    /\ UNCHANGED cvars

\* for it in batch: upsert_fts(conn, ...): the first statement opens the
\* write transaction of the connection, which stays open until the commit
upsert_fts(t) ==
    /\ ipc[t] = "upsert_fts"
    /\ writer \in {0, t}
    /\ writer' = t
    /\ pending' = pending \cup Batch(ivid[t], rows[t], written[t])
    /\ LET w == written[t] + Cardinality(Batch(ivid[t], rows[t], written[t]))
       IN  /\ written' = [written EXCEPT ![t] = w]
           /\ IGoto(t, IF w = rows[t] THEN "commit" ELSE "encode")
    /\ UNCHANGED <<segments, status, vectors, fts, ivid, rows, lastrun, before>>
    /\ UNCHANGED svars
    /\ UNCHANGED cvars

\* upsert_fts while another connection holds the write lock past the busy
\* timeout: the statement raises out of index_video
upsert_fts_locked(t) ==
    /\ ipc[t] = "upsert_fts"
    /\ writer \notin {0, t}
    /\ IndexLeave(t)
    /\ lastrun' = [lastrun EXCEPT ![ivid[t]] = 0]
    /\ UNCHANGED <<segments, status, vectors, fts, writer, pending>>
    /\ UNCHANGED svars
    /\ UNCHANGED cvars

\* conn.commit(): the rows written by upsert_fts replace the rows of the
\* same segment_id
CommitFts(t) ==
    /\ ipc[t] = "commit"
    /\ writer = t
    /\ fts' = fts \cup pending
    /\ pending' = {}
    /\ writer' = 0
    /\ IGoto(t, "set_indexed")
    /\ UNCHANGED <<segments, status, vectors, ivid, rows, written, lastrun, before>>
    /\ UNCHANGED svars
    /\ UNCHANGED cvars

\* UPDATE videos SET status='indexed'; commit; close; return the summary
SetIndexed(t) ==
    /\ ipc[t] = "set_indexed"
    /\ writer = 0
    /\ status' = [status EXCEPT ![ivid[t]] =
                      IF @ = NoRow THEN NoRow ELSE "indexed"]
    /\ IndexLeave(t)
    /\ lastrun' = [lastrun EXCEPT ![ivid[t]] =
                      IF before[t].alone THEN rows[t] ELSE 0]
    /\ UNCHANGED <<segments, vectors, fts, writer, pending>>
    /\ UNCHANGED svars
    /\ UNCHANGED cvars

\* the UPDATE while another connection holds the write lock past the busy
\* timeout: it raises, finally closes the connection
SetIndexedLocked(t) ==
    /\ ipc[t] = "set_indexed"
    /\ writer # 0
    /\ IndexLeave(t)
    /\ lastrun' = [lastrun EXCEPT ![ivid[t]] = 0]
    /\ UNCHANGED <<segments, status, vectors, fts, writer, pending>>
    /\ UNCHANGED svars
    /\ UNCHANGED cvars

\* transcribe.py: a video without segments gets n of them and the status
\* transcribed (n = 0: empty audio)
transcribe_write(v, n) ==
    /\ status[v] # NoRow
    /\ segments[v] = 0
    /\ writer = 0
    /\ segments' = [segments EXCEPT ![v] = n]
    /\ status' = [status EXCEPT ![v] = "transcribed"]
    /\ lastrun' = [lastrun EXCEPT ![v] = 0]
    /\ before' = Forget(v)
    /\ UNCHANGED <<vectors, fts, writer, pending, ipc, ivid, rows, written>>
    /\ UNCHANGED svars
    /\ UNCHANGED cvars

\* POST /videos/{id}/reprocess: DELETE FROM segments; status = 'added'
api_reprocess(v) ==
    /\ writer = 0
    /\ segments[v] > 0
    /\ segments' = [segments EXCEPT ![v] = 0]
    /\ status' = [status EXCEPT ![v] = "added"]
    /\ lastrun' = [lastrun EXCEPT ![v] = 0]
    /\ before' = Forget(v)
    /\ UNCHANGED <<vectors, fts, writer, pending, ipc, ivid, rows, written>>
    /\ UNCHANGED svars
    /\ UNCHANGED cvars

IndexStep(t) ==
    \/ SelectSegments(t) \/ NoSegments(t)
    \/ clean_old_fts(t) \/ clean_old_fts_locked(t)
    \/ DeleteVectors(t)
    \/ UpsertVectors(t) \/ EncodeRaise(t)
    \/ upsert_fts(t) \/ upsert_fts_locked(t)
    \/ CommitFts(t)
    \/ SetIndexed(t) \/ SetIndexedLocked(t)

InitIndex ==
    /\ segments = [v \in Videos |-> 0]
    /\ status = [v \in Videos |-> "added"]
    /\ vectors = {}
    /\ fts = {}
    /\ writer = 0
    /\ pending = {}
    /\ ipc = [t \in Indexers |-> "idle"]
    /\ ivid = [t \in Indexers |-> NoVideo]
    /\ rows = [t \in Indexers |-> 0]
    /\ written = [t \in Indexers |-> 0]
    /\ lastrun = [v \in Videos |-> 0]
    /\ before = [t \in Indexers |-> NoBase]
    /\ clips = {}
    /\ found = {}
    /\ result = [t \in Threads |-> NoResult]
    /\ kin = NoInput
    /\ pp = [r \in Requests |-> NoRequest]
    /\ sreq = NoSearch
    /\ sres = NoAnswer
    /\ kout = NoOutput


\* ------------------------- transcribe and index_video: what they write
\* The calls of a pipeline job or a force task, each statement group with
\* its effect on the registry, the catalog and the stores; index_video in
\* one step.
Max(a, b) == IF a > b THEN a ELSE b

\* if not row: return "Видео ... не найдено"
JobTranscribeNotFound(t) ==
    /\ pc[t] = "t_start"
    /\ status[vid[t]] = NoRow
    /\ result' = [result EXCEPT ![t] = MsgVideoNotFound]
    /\ Goto(t, AfterTranscribe(t))
    /\ UNCHANGED <<queue, tasks, sem, permits, vid, held, failed, cache, resp>>
    /\ UNCHANGED ivars
    /\ UNCHANGED <<clips, found, kin, kout, xvars>>

\* if cnt > 0: return "Уже N сегментов. Удалите для повторной транскрибации."
JobTranscribeRefuse(t) ==
    /\ pc[t] = "t_start"
    /\ status[vid[t]] # NoRow
    /\ segments[vid[t]] > 0
    /\ result' = [result EXCEPT ![t] = MsgExists]
    /\ Goto(t, AfterTranscribe(t))
    /\ UNCHANGED <<queue, tasks, sem, permits, vid, held, failed, cache, resp>>
    /\ UNCHANGED ivars
    /\ UNCHANGED <<clips, found, kin, kout, xvars>>

\* the mutant of JobTranscribeLoad: the count of the segments is not asked
JobTranscribeLoadUnchecked(t) ==
    /\ pc[t] = "t_start"
    /\ status[vid[t]] # NoRow
    /\ cache' = get_whisper(cache)
    /\ Goto(t, "t_run")
    /\ UNCHANGED <<queue, tasks, sem, permits, vid, held, failed, resp>>
    /\ UNCHANGED ivars
    /\ UNCHANGED cvars

\* the row is there and has no segments: model = get_whisper()
JobTranscribeLoad(t) ==
    /\ pc[t] = "t_start"
    /\ status[vid[t]] # NoRow
    /\ segments[vid[t]] = 0
    /\ cache' = get_whisper(cache)
    /\ Goto(t, "t_run")
    /\ UNCHANGED <<queue, tasks, sem, permits, vid, held, failed, resp>>
    /\ UNCHANGED ivars
    /\ UNCHANGED cvars

\* decoding done: INSERT OR REPLACE the n segments, status = 'transcribed',
\* commit, release_whisper()
JobTranscribeWrite(t, n) ==
    /\ pc[t] = "t_run"
    /\ writer = 0
    /\ segments' = [segments EXCEPT ![vid[t]] = Max(@, n)]
    /\ status' = [status EXCEPT ![vid[t]] =
                      IF @ = NoRow THEN NoRow ELSE "transcribed"]
    /\ lastrun' = [lastrun EXCEPT ![vid[t]] = 0]
    /\ before' = Forget(vid[t])
    /\ cache' = release_whisper(cache)
    /\ result' = [result EXCEPT ![t] = MsgSegments]
    /\ Goto(t, AfterTranscribe(t))
    /\ UNCHANGED <<queue, tasks, sem, permits, vid, held, failed, resp>>
    /\ UNCHANGED <<vectors, fts, writer, pending, ipc, ivid, rows, written>>
    /\ UNCHANGED <<clips, found, kin, kout, xvars>>

\* decoding raises: release_whisper(); return "Ошибка транскрибации: ..."
JobTranscribeDecodeError(t) ==
    /\ pc[t] = "t_run"
    /\ cache' = release_whisper(cache)
    /\ result' = [result EXCEPT ![t] = MsgDecode]
    /\ Goto(t, AfterTranscribe(t))
    /\ UNCHANGED <<queue, tasks, sem, permits, vid, held, failed, resp>>
    /\ UNCHANGED ivars
    /\ UNCHANGED <<clips, found, kin, kout, xvars>>

\* an exception outside the inner try (stat of the file, the INSERT, the
\* UPDATE or the commit): it leaves transcribe
JobTranscribeRaise(t) ==
    /\ pc[t] = "t_run"
    /\ failed' = [failed EXCEPT ![t] = "transcribe"]
    /\ result' = [result EXCEPT ![t] = NoResult]
    /\ Goto(t, TranscribeRaised(t))
    /\ UNCHANGED <<queue, tasks, sem, permits, vid, held, cache, resp>>
    /\ UNCHANGED ivars
    /\ UNCHANGED <<clips, found, kin, kout, xvars>>

\* index_video: if not rows: return
JobIndexNoSegments(t) ==
    /\ pc[t] = "i_start"
    /\ segments[vid[t]] = 0
    /\ Goto(t, AfterIndex(t))
    /\ UNCHANGED <<queue, tasks, sem, permits, vid, held, failed, cache, resp>>
    /\ UNCHANGED ivars
    /\ UNCHANGED cvars

\* index_video from the SELECT to the return: both stores get the chunks of
\* the rows in place of what they held, status = 'indexed'
JobIndexOk(t) ==
    /\ pc[t] = "i_start"
    /\ segments[vid[t]] > 0
    /\ writer = 0
    /\ LET v == vid[t]
           ids == ChunkIds(v, segments[v])
       IN  /\ fts' = (fts \ Of(fts, v)) \cup ids
           /\ vectors' = (vectors \ Of(vectors, v)) \cup ids
           /\ status' = [status EXCEPT ![v] = IF @ = NoRow THEN NoRow ELSE "indexed"]
           /\ lastrun' = [lastrun EXCEPT ![v] = segments[v]]
           /\ before' = Forget(v)
    /\ \E many \in BOOLEAN :
          cache' = get_embed_model(IF many THEN get_chunk_model(cache) ELSE cache)
    /\ Goto(t, AfterIndex(t))
    /\ UNCHANGED <<queue, tasks, sem, permits, vid, held, failed, resp>>
    /\ UNCHANGED <<segments, writer, pending, ipc, ivid, rows, written>>
    /\ UNCHANGED cvars

\* index_video raising while it encodes the batch after the first k chunks:
\* both stores are wiped, the vectors of k chunks are written, the FTS rows
\* of the run are rolled back, the status stays
JobIndexRaise(t, k) ==
    /\ pc[t] = "i_start"
    /\ segments[vid[t]] > 0
    /\ k < segments[vid[t]]
    /\ k % BatchSize = 0
    /\ writer = 0
    /\ LET v == vid[t]
       IN  /\ fts' = fts \ Of(fts, v)
           /\ vectors' = (vectors \ Of(vectors, v)) \cup ChunkIds(v, k)
           /\ lastrun' = [lastrun EXCEPT ![v] = 0]
           /\ before' = Forget(v)
    /\ \E many \in BOOLEAN :
          cache' = get_embed_model(IF many THEN get_chunk_model(cache) ELSE cache)
    /\ failed' = [failed EXCEPT ![t] = "index"]
    /\ Goto(t, IndexRaised(t))
    /\ UNCHANGED <<queue, tasks, sem, permits, vid, held, resp>>
    /\ UNCHANGED <<segments, status, writer, pending, ipc, ivid, rows, written>>
    /\ UNCHANGED cvars

\* POST /videos/{id}/transcribe?force=true: DELETE FROM segments, then the
\* background task
api_transcribe_force(t, v) ==
    /\ pc[t] = "idle"
    /\ writer = 0
    /\ segments' = [segments EXCEPT ![v] = 0]
    /\ lastrun' = [lastrun EXCEPT ![v] = 0]
    /\ before' = Forget(v)
    /\ Goto(t, "f_acquire_t")
    /\ vid' = [vid EXCEPT ![t] = v]
    /\ UNCHANGED <<queue, tasks, sem, permits, held, failed, cache, resp>>
    /\ UNCHANGED <<status, vectors, fts, writer, pending, ipc, ivid, rows, written>>
    /\ UNCHANGED cvars

\* POST /videos/{id}/reprocess, all of it: DELETE FROM segments, status =
\* 'added', enqueue_pipeline(video_id)
reprocess(v) ==
    /\ writer = 0
    /\ Len(tasks) < MaxTasks
    /\ segments' = [segments EXCEPT ![v] = 0]
    /\ status' = [status EXCEPT ![v] = IF @ = NoRow THEN NoRow ELSE "added"]
    /\ lastrun' = [lastrun EXCEPT ![v] = 0]
    /\ before' = Forget(v)
    /\ queue' = QueueSet(queue, v, [status |-> "waiting"])
    /\ tasks' = Append(tasks, v)
    /\ UNCHANGED <<sem, permits, pc, vid, held, failed, cache, resp>>
    /\ UNCHANGED <<vectors, fts, writer, pending, ipc, ivid, rows, written>>
    /\ UNCHANGED cvars

\* -------------------------------- routes/videos.py api_process_pending
PGoto(r, where, todo, cur) ==
    /\ pp' = [pp EXCEPT ![r] = [at |-> where, todo |-> todo, cur |-> cur]]
    /\ UNCHANGED <<sreq, sres>>

\* POST /videos/process-pending: the SELECT over videos LEFT JOIN segment
\* counts; rows with seg_count > 0 are skipped by the loop
api_process_pending(r) ==
    /\ pp[r].at = "idle"
    /\ PGoto(r, "loop", {v \in Videos : status[v] # NoRow /\ segments[v] = 0}, NoVideo)
    /\ UNCHANGED <<clips, found, result, kin, kout>>
    /\ UNCHANGED svars
    /\ UNCHANGED ivars

\* if is_in_queue(video_id): skipped += 1; continue
PendingSkip(r) ==
    /\ pp[r].at = "loop"
    /\ \E v \in pp[r].todo :
          /\ v \in DOMAIN queue
          /\ PGoto(r, "loop", pp[r].todo \ {v}, NoVideo)
    /\ UNCHANGED <<clips, found, result, kin, kout>>
    /\ UNCHANGED svars
    /\ UNCHANGED ivars

\* is_in_queue(video_id) returned False; _queue_lock is free again
PendingCheck(r) ==
    /\ pp[r].at = "loop"
    /\ \E v \in pp[r].todo :
          /\ v \notin DOMAIN queue
          /\ PGoto(r, "enqueue", pp[r].todo \ {v}, v)
    /\ UNCHANGED <<clips, found, result, kin, kout>>
    /\ UNCHANGED svars
    /\ UNCHANGED ivars

\* enqueue_pipeline(video_id, title)
PendingEnqueue(r) ==
    /\ pp[r].at = "enqueue"
    /\ Len(tasks) < MaxTasks
    /\ queue' = QueueSet(queue, pp[r].cur, [status |-> "waiting"])
    /\ tasks' = Append(tasks, pp[r].cur)
    /\ PGoto(r, "loop", pp[r].todo, NoVideo)
    /\ UNCHANGED <<sem, permits, pc, vid, held, failed, cache, resp>>
    /\ UNCHANGED <<clips, found, result, kin, kout>>
    /\ UNCHANGED ivars

\* the loop is over: return {enqueued, skipped, total, videos}
PendingReturn(r) ==
    /\ pp[r].at = "loop"
    /\ pp[r].todo = {}
    /\ PGoto(r, "idle", {}, NoVideo)
    /\ UNCHANGED <<clips, found, result, kin, kout>>
    /\ UNCHANGED svars
    /\ UNCHANGED ivars

PendingStep(r) ==
    \/ api_process_pending(r)
    \/ PendingSkip(r) \/ PendingCheck(r) \/ PendingEnqueue(r)
    \/ PendingReturn(r)

\* ------------------------------------- catalog requests and search.py
\* POST /videos, watcher: a video without a row gets one, status 'added'
api_add_video(v) ==
    /\ status[v] = NoRow
    /\ writer = 0
    /\ status' = [status EXCEPT ![v] = "added"]
    /\ UNCHANGED <<segments, vectors, fts, writer, pending, ipc, ivid, rows, written,
                   lastrun, before>>
    /\ UNCHANGED svars
    /\ UNCHANGED cvars

\* cut.py cut_clip: INSERT INTO clips for a video of the catalog
cut_clip(v) ==
    /\ status[v] # NoRow
    /\ writer = 0
    /\ clips' = clips \cup {v}
    /\ UNCHANGED <<found, result, kin, kout, xvars>>
    /\ UNCHANGED ivars
    /\ UNCHANGED svars

\* DELETE /videos/{video_id}: DELETE FROM segments, clips, videos; commit;
\* collection.delete(where video_id)
api_delete_video(v) ==
    /\ writer = 0
    /\ segments' = [segments EXCEPT ![v] = 0]
    /\ clips' = clips \ {v}
    /\ status' = [status EXCEPT ![v] = NoRow]
    /\ vectors' = vectors \ Of(vectors, v)
    /\ lastrun' = [lastrun EXCEPT ![v] = 0]
    /\ before' = Forget(v)
    /\ UNCHANGED <<fts, pending, writer, ipc, ivid, rows, written>>
    /\ UNCHANGED <<found, result, kin, kout, xvars>>
    /\ UNCHANGED svars

\* a result of search: the chunk id and whether start_sec and end_sec come
\* from a record of the vector store (otherwise both are 0.0)
Hit(r, stamped) == [id |-> r, stamped |-> stamped]
\* _vector_search: the records the query matches
VectorHits(vh) == {Hit(r, TRUE) : r \in vh}
\* _fts_search: the rows the query matches, with the timestamps of
\* collection.get(ids) where it has the id
FtsHits(fh) == {Hit(r, r \in vectors) : r \in fh}
\* _rrf_merge: one payload per id, the one of the vector list first
RrfMerge(vl, fl) == vl \cup {h \in fl : \A g \in vl : g.id # h.id}

\* search(query, video_ids): vh and fh are the records and rows of the
\* videos asked for that the query matches
search(ids, vh, fh) ==
    /\ \A r \in vh \cup fh : r[1] \in ids
    /\ cache' = get_embed_model(cache)
    /\ found' = IF fh = {} THEN VectorHits(vh)
                ELSE RrfMerge(VectorHits(vh), FtsHits(fh))
    /\ UNCHANGED <<clips, result, kin, kout, xvars>>
    /\ UNCHANGED ivars
    /\ UNCHANGED <<queue, tasks, sem, permits, pc, vid, held, failed, resp>>

\* ------------------------------------------- search.py, ranked results
\* Times are in hundredths of a second, scores in units of 0.0001. A record
\* of the vector store is [segment_id, video_id, start_sec, end_sec, stub],
\* stub telling a document of fewer than 30 characters; a row of the FTS
\* table is [segment_id, video_id]. A result is [segment_id, video_id,
\* start_sec, end_sec, score, source].
Cs == 100
RRF_K == 60
NoIds == [given |-> FALSE, ids |-> {}]
GivenIds(ids) == [given |-> TRUE, ids |-> ids]
\* `if video_ids:` of Python: None and the empty list are both false
Truthy(f) == f.given /\ f.ids # {}
\* lst[:n]
Take(lst, n) == SubSeq(lst, 1, Min(n, Len(lst)))
\* round(n / d, 4) in units of 0.0001
Round4(n, d) == (2 * 10000 * n + d) \div (2 * d)

\* a key of a sort: a fraction n / d with d > 0
FracGt(x, y) == x.n * y.d > y.n * x.d
\* sorted(s, key=..., reverse=True): stable, greater keys first; keys[i] is
\* the key of s[i]
StableSortDesc(s, keys) ==
    LET Pos(i) == Cardinality({j \in 1..Len(s) :
                      FracGt(keys[j], keys[i]) \/ (j < i /\ ~FracGt(keys[i], keys[j]))}) + 1
    IN  [p \in 1..Len(s) |-> s[CHOOSE i \in 1..Len(s) : Pos(i) = p]]
SortByScore(s) ==
    StableSortDesc(s, [i \in 1..Len(s) |-> [n |-> s[i].score, d |-> 1]])

\* collection.query(query_embeddings, n_results, where): the n_results
\* nearest records among those of the videos asked for, nearest first
CollectionQuery(dense, n, ids) ==
    LET In(r) == r.video_id \in ids
    IN  Take(SelectSeq(dense, In), n)

\* _vector_search(query, top_k, video_ids): dists are the cosine distances
\* of the records, score = round(1 - dist, 4)
VectorResults(dense, top_k, f) ==
    LET got == IF Truthy(f) THEN CollectionQuery(dense, top_k, f.ids)
               ELSE Take(dense, top_k)
        Long(r) == ~r.stub
        kept == SelectSeq(got, Long)
    IN  [i \in 1..Len(kept) |->
            [segment_id |-> kept[i].segment_id, video_id |-> kept[i].video_id,
             start_sec |-> kept[i].start_sec, end_sec |-> kept[i].end_sec,
             score |-> 10000 - kept[i].dist, source |-> "vector"]]

\* db.fts_search(query, top_k): the matching rows by rank, LIMIT top_k
DbFtsSearch(frows, top_k) == Take(frows, top_k)

\* _fts_search(query, top_k, video_ids); metas holds the records that
\* collection.get(ids) finds, score = round(1 / (1 + |rank|), 4)
FtsResults(frows, metas, top_k, f) ==
    LET got == DbFtsSearch(frows, IF Truthy(f) THEN top_k * 3 ELSE top_k)
        In(r) == r.video_id \in f.ids
        cut == IF Truthy(f) THEN Take(SelectSeq(got, In), top_k)
               ELSE Take(got, top_k)
        Meta(sid) == IF \E m \in metas : m.segment_id = sid
                     THEN CHOOSE m \in metas : m.segment_id = sid
                     ELSE [start_sec |-> 0, end_sec |-> 0]
    IN  [i \in 1..Len(cut) |->
            [segment_id |-> cut[i].segment_id, video_id |-> cut[i].video_id,
             start_sec |-> Meta(cut[i].segment_id).start_sec,
             end_sec |-> Meta(cut[i].segment_id).end_sec,
             score |-> Round4(1, 1 + cut[i].rank), source |-> "fts"]]

\* the ranks (from 1) an id has in a list
RanksIn(lst, sid) == {i \in 1..Len(lst) : lst[i].segment_id = sid}
\* the sum of 1 / (k + rank) of an id over both lists, as a fraction
RrfSum(k, vl, fl, sid) ==
    LET ds == [i \in 1..(Len(vl) + Len(fl)) |->
                  IF i <= Len(vl)
                  THEN (IF vl[i].segment_id = sid THEN k + i ELSE 0)
                  ELSE (IF fl[i - Len(vl)].segment_id = sid THEN k + i - Len(vl) ELSE 0)]
        hit == SelectSeq(ds, LAMBDA d : d # 0)
    IN  IF Len(hit) = 1 THEN [n |-> 1, d |-> hit[1]]
        ELSE [n |-> hit[1] + hit[2], d |-> hit[1] * hit[2]]

\* variant: the ranks are summed without the constant k
rrf_merge_no_k(vl, fl) ==
    LET first == [i \in 1..Len(vl) |-> vl[i].segment_id]
        New(r) == RanksIn(vl, r.segment_id) = {}
        late == SelectSeq(fl, New)
        sids == first \o [i \in 1..Len(late) |-> late[i].segment_id]
        Payload(sid) ==
            IF \E i \in RanksIn(fl, sid) : fl[i].source = "vector"
            THEN fl[CHOOSE i \in RanksIn(fl, sid) : fl[i].source = "vector"]
            ELSE IF RanksIn(vl, sid) # {}
            THEN vl[CHOOSE i \in RanksIn(vl, sid) : TRUE]
            ELSE fl[CHOOSE i \in RanksIn(fl, sid) : TRUE]
        merged == StableSortDesc(sids,
                      [i \in 1..Len(sids) |-> RrfSum(0, vl, fl, sids[i])])
    IN  [i \in 1..Len(merged) |->
            [Payload(merged[i]) EXCEPT
                !.score = Round4(RrfSum(0, vl, fl, merged[i]).n,
                                 RrfSum(0, vl, fl, merged[i]).d),
                !.source = "hybrid"]]

\* _rrf_merge([vec_results, fts_results], k=60): ids in the order they
\* enter the dict, sorted by their sum; the payload of the vector list
\* where there is one
rrf_merge(vl, fl) ==
    LET first == [i \in 1..Len(vl) |-> vl[i].segment_id]
        New(r) == RanksIn(vl, r.segment_id) = {}
        late == SelectSeq(fl, New)
        sids == first \o [i \in 1..Len(late) |-> late[i].segment_id]
        Payload(sid) ==
            IF \E i \in RanksIn(fl, sid) : fl[i].source = "vector"
            THEN fl[CHOOSE i \in RanksIn(fl, sid) : fl[i].source = "vector"]
            ELSE IF RanksIn(vl, sid) # {}
            THEN vl[CHOOSE i \in RanksIn(vl, sid) : TRUE]
            ELSE fl[CHOOSE i \in RanksIn(fl, sid) : TRUE]
        merged == StableSortDesc(sids,
                      [i \in 1..Len(sids) |-> RrfSum(RRF_K, vl, fl, sids[i])])
    IN  [i \in 1..Len(merged) |->
            [Payload(merged[i]) EXCEPT
                !.score = Round4(RrfSum(RRF_K, vl, fl, merged[i]).n,
                                 RrfSum(RRF_K, vl, fl, merged[i]).d),
                !.source = "hybrid"]]

\* overlap_duration of two results
Overlap(c, k) ==
    Max(0, Min(c.end_sec, k.end_sec) - Max(c.start_sec, k.start_sec))
\* overlap_duration / c_duration >= 0.5, c_duration = max(end - start, 0.1)
Overlaps(c, k) == 2 * Overlap(c, k) >= Max(c.end_sec - c.start_sec, Cs \div 10)

\* the loop over sorted_items of one video: kept after the first n of them
RECURSIVE Kept(_, _)
Kept(items, n) ==
    IF n = 0 THEN << >>
    ELSE LET kept == Kept(items, n - 1)
         IN  IF \E i \in 1..Len(kept) : Overlaps(items[n], kept[i])
             THEN kept
             ELSE Append(kept, items[n])

\* by_video: the videos in the order of their first result
VideoOrder(results) ==
    LET First(i) == \A j \in 1..(i - 1) : results[j].video_id # results[i].video_id
        idx == SelectSeq([i \in 1..Len(results) |-> i], First)
    IN  [i \in 1..Len(idx) |-> results[idx[i]].video_id]

RECURSIVE Concat(_)
Concat(ss) == IF ss = << >> THEN << >> ELSE Head(ss) \o Concat(Tail(ss))

\* what _deduplicate_overlapping keeps of each video, one video after another
KeptByVideo(results) ==
    LET vs == VideoOrder(results)
        OfVideo(v) == LET Of_v(r) == r.video_id = v IN SelectSeq(results, Of_v)
        Sorted(v) == SortByScore(OfVideo(v))
    IN  Concat([i \in 1..Len(vs) |-> Kept(Sorted(vs[i]), Len(Sorted(vs[i])))])

\* variant: without final.sort
deduplicate_unsorted(results) == KeptByVideo(results)

\* _deduplicate_overlapping(results)
deduplicate_overlapping(results) == SortByScore(KeptByVideo(results))

\* search(query, top_k, video_ids=video_ids) of a query that is not blank
search_ranked(dense, frows, metas, top_k, f) ==
    LET n_candidates == top_k * 3
        vec_results == VectorResults(dense, n_candidates, f)
        fts_results == FtsResults(frows, metas, n_candidates, f)
        fused == IF fts_results # << >> THEN rrf_merge(vec_results, fts_results)
                 ELSE vec_results
    IN  Take(deduplicate_overlapping(fused), top_k)

\* videos.channel_name
channel_name == [v \in Videos |-> IF v = "a" THEN "x" ELSE "y"]
\* _video_ids_from_channels(channel_names)
video_ids_from_channels(names) == {v \in Videos : channel_name[v] \in names}

\* the video_ids api_search hands to search; tags are the channel names of
\* filter_tags, not given when filter_tags is None or blank
RouteFilter(video_ids, tags) ==
    IF tags.given
    THEN IF video_ids.given
         THEN GivenIds(video_ids_from_channels(tags.ids) \cap video_ids.ids)
         ELSE IF video_ids_from_channels(tags.ids) # {}
         THEN GivenIds(video_ids_from_channels(tags.ids))
         ELSE NoIds
    ELSE video_ids

\* the corpus: where the chunks lie in time (none for a chunk without a
\* record in the vector store) and which documents are stubs
NoSpan == [start_sec |-> -1, end_sec |-> -1]
Span(a, b) == [start_sec |-> a, end_sec |-> b]
SpanOf(l, sid) ==
    CASE l = 1 -> (CASE sid = "A" -> Span(10 * Cs, 20 * Cs)
                     [] sid = "B" -> Span(30 * Cs, 40 * Cs)
                     [] sid = "C" -> Span(50 * Cs, 60 * Cs)
                     [] OTHER     -> Span(70 * Cs, 80 * Cs))
      [] l = 2 -> (CASE sid = "A" -> Span(10 * Cs, 20 * Cs)
                     [] sid = "B" -> Span(15 * Cs, 25 * Cs)
                     [] sid = "C" -> Span(20 * Cs, 30 * Cs)
                     [] OTHER     -> Span(15 * Cs + 10, 25 * Cs + 10))
      [] l = 3 -> (CASE sid = "A" -> Span(0, 100 * Cs)
                     [] sid = "B" -> Span(40 * Cs, 60 * Cs)
                     [] sid = "C" -> Span(15 * Cs, 15 * Cs + 4)
                     [] OTHER     -> NoSpan)
      [] OTHER -> (CASE sid = "A" -> Span(10 * Cs, 20 * Cs)
                     [] sid = "B" -> Span(10 * Cs, 20 * Cs)
                     [] sid = "C" -> Span(10 * Cs, 20 * Cs)
                     [] OTHER     -> Span(10 * Cs, 10 * Cs))
StubOf(l, sid) == l = 4 /\ sid = "A"
VideoOf(m, sid) == IF m = 1 \/ sid \in {"A", "C"} THEN "a" ELSE "b"

\* the records of the vector store, nearest first, and the rows of the FTS
\* table, best first, for the ids in the order given
Records(l, m, order) ==
    [i \in 1..Len(order) |->
        [segment_id |-> order[i], video_id |-> VideoOf(m, order[i]),
         start_sec |-> SpanOf(l, order[i]).start_sec,
         end_sec |-> SpanOf(l, order[i]).end_sec,
         stub |-> StubOf(l, order[i]), dist |-> 1000 * i]]
FtsRows(m, order) ==
    [i \in 1..Len(order) |->
        [segment_id |-> order[i], video_id |-> VideoOf(m, order[i]), rank |-> 4 - i]]
Metas(l, m) ==
    {[segment_id |-> sid, video_id |-> VideoOf(m, sid),
      start_sec |-> SpanOf(l, sid).start_sec, end_sec |-> SpanOf(l, sid).end_sec] :
        sid \in {x \in Ids : SpanOf(l, x) # NoSpan}}
\* the orders of up to three distinct ids of a set
Orders(ids) ==
    {o \in UNION {[1..n -> ids] : n \in 0..3} :
        \A i, j \in DOMAIN o : i # j => o[i] # o[j]}

\* POST /search arrives: the request, and what the stores hold for its query
post_search ==
    /\ ~sreq.asked
    /\ \E l \in Layouts, m \in VideoMaps, top_k \in TopKs,
          d \in Orders({"A", "B", "C"}), r \in Orders({"B", "C", "D"}),
          video_ids \in {NoIds} \cup {GivenIds(i) : i \in SUBSET {"a"} \cup {{"b"}}},
          tags \in {NoIds, GivenIds({"x"}), GivenIds({"z"})} :
            sreq' = [asked |-> TRUE, layout |-> l, top_k |-> top_k,
                     video_ids |-> video_ids, tags |-> tags,
                     dense |-> Records(l, m, d), rows |-> FtsRows(m, r),
                     metas |-> Metas(l, m)]
    /\ UNCHANGED <<pp, sres>>
    /\ UNCHANGED <<clips, found, result, kin, kout>>
    /\ UNCHANGED svars
    /\ UNCHANGED ivars

\* api_search(req): the results of search under the filter of the request
api_search ==
    /\ sreq.asked
    /\ ~sres.done
    /\ sres' = [done |-> TRUE,
                results |-> search_ranked(sreq.dense, sreq.rows, sreq.metas, sreq.top_k,
                                RouteFilter(sreq.video_ids, sreq.tags))]
    /\ UNCHANGED <<pp, sreq>>
    /\ UNCHANGED <<clips, found, result, kin, kout>>
    /\ UNCHANGED svars
    /\ UNCHANGED ivars

\* ------------------------------------------------------- chunking_v2.py
\* A text is the sequence of its words, joined by single spaces. A word is
\* [id, len, st, et, stop]: what tells it from every other word of the
\* video, its length in characters, its two timestamps in milliseconds, and
\* whether it closes a sentence (ends in one of .!? before a capital).
\* A raw segment is [start_sec, end_sec, text, words] with the times in
\* milliseconds; words is << >> when words_json is NULL.

\* milliseconds in a second
Ms == 1000
\* config.py: CHUNK_THRESHOLD = 0.55, in hundredths
CHUNK_THRESHOLD == 55
CHUNK_MIN_CHARS == 80
CHUNK_MAX_CHARS == 350
CHUNK_MIN_SECONDS == 5
CHUNK_MAX_SECONDS == 20

\* the characters of the words of ws
RECURSIVE SumLen(_)
SumLen(ws) ==
    IF ws = << >> THEN 0
    ELSE IF Len(ws) = 1 THEN ws[1].len
    ELSE SumLen(SubSeq(ws, 1, Len(ws) \div 2))
         + SumLen(SubSeq(ws, Len(ws) \div 2 + 1, Len(ws)))

\* len(text)
TextLen(ws) == IF ws = << >> THEN 0 ELSE SumLen(ws) + Len(ws) - 1

Last(s) == s[Len(s)]

\* if txt and txt[-1] not in '.!?': txt += '.'
AddStop(ws) ==
    IF ws = << >> \/ Last(ws).stop THEN ws
    ELSE [ws EXCEPT ![Len(ws)] = [@ EXCEPT !.len = @ + 1, !.stop = TRUE]]

\* txt.rstrip('.!?')
RStrip(ws) ==
    IF ws # << >> /\ Last(ws).stop
    THEN [ws EXCEPT ![Len(ws)] = [@ EXCEPT !.len = @ - 1, !.stop = FALSE]]
    ELSE ws

\* the words after which a sentence of the text ends
Ends(ws) == {i \in 1..Len(ws) : ws[i].stop \/ i = Len(ws)}

\* the text from word from on, cut after every word that closes a sentence
RECURSIVE Sentences(_, _)
Sentences(ws, from) ==
    IF from > Len(ws) THEN << >>
    ELSE LET to == CHOOSE i \in Ends(ws) :
                       i >= from /\ \A j \in Ends(ws) : j >= from => i <= j
         IN  <<SubSeq(ws, from, to)>> \o Sentences(ws, to + 1)

\* len(s.strip()) >= 10
LongEnough(s) == TextLen(s) >= 10

\* _split_sentences: with Razdel the sentences of at least 10 characters;
\* without it the same with a '.' put after a sentence that has none, and
\* the text itself when nothing is left
split_sentences(text, razdel) ==
    LET kept == SelectSeq(Sentences(text, 1), LongEnough)
    IN  IF razdel THEN kept
        ELSE IF kept = << >> THEN <<text>>
        ELSE [i \in 1..Len(kept) |-> AddStop(kept[i])]

RECURSIVE MergeShort(_, _, _)
MergeShort(rest, cur, min_len) ==
    IF rest = << >> THEN <<AddStop(cur)>>
    ELSE IF TextLen(cur) < min_len
         THEN MergeShort(Tail(rest), RStrip(cur) \o Head(rest), min_len)
         ELSE <<AddStop(cur)>> \o MergeShort(Tail(rest), Head(rest), min_len)

\* _merge_short_sentences
merge_short_sentences(sentences, min_len) ==
    IF sentences = << >> THEN << >>
    ELSE MergeShort(Tail(sentences), Head(sentences), min_len)

\* the characters of a text: its words without their timestamps
Txt(ws) == [i \in 1..Len(ws) |-> [id |-> ws[i].id, len |-> ws[i].len, stop |-> ws[i].stop]]

\* full_text.find(sent, search_cur) in words: the index of the first word of
\* the first occurrence of sent that starts at word from or later, 0 for -1
Find(sent, text, from) ==
    LET hits == {i \in from..(Len(text) - Len(sent) + 1) :
                    Txt(SubSeq(text, i, i + Len(sent) - 1)) = Txt(sent)}
    IN  IF sent = << >> \/ hits = {} THEN 0
        ELSE CHOOSE i \in hits : \A j \in hits : i <= j

\* sent_duration = (sent_chars / total_chars) * duration
Share(chars, total, duration) == (chars * duration) \div total

RECURSIVE SumTextLen(_)
SumTextLen(ss) == IF ss = << >> THEN 0 ELSE TextLen(Head(ss)) + SumTextLen(Tail(ss))

\* _force_split_large_segment, the loop over the sentences when the segment
\* has its words: the words of a sentence found in the joined words give its
\* times, a sentence not found gets its share of the duration
RECURSIVE SplitByWords(_, _, _, _)
SplitByWords(seg, sentences, i, current_start) ==
    IF i > Len(sentences) THEN << >>
    ELSE LET sent == sentences[i]
             idx == Find(sent, seg.words, 1)
             sent_words == IF idx = 0 THEN << >>
                           ELSE SubSeq(seg.words, idx, idx + Len(sent) - 1)
             sent_start == IF idx = 0 THEN current_start ELSE Head(sent_words).st
             sent_end == IF i = Len(sentences) THEN seg.end_sec
                         ELSE IF idx = 0
                              THEN current_start + Share(TextLen(sent), SumTextLen(sentences),
                                                         seg.end_sec - seg.start_sec)
                              ELSE Last(sent_words).et
         IN  <<[start_sec |-> sent_start, end_sec |-> sent_end,
                text |-> sent, words |-> sent_words]>>
             \o SplitByWords(seg, sentences, i + 1, sent_end)

\* the loop when the segment has no words
RECURSIVE SplitEven(_, _, _, _)
SplitEven(seg, sentences, i, current_start) ==
    IF i > Len(sentences) THEN << >>
    ELSE LET sent == sentences[i]
             sent_end == IF i = Len(sentences) THEN seg.end_sec
                         ELSE current_start + Share(TextLen(sent), SumTextLen(sentences),
                                                    seg.end_sec - seg.start_sec)
         IN  <<[start_sec |-> current_start, end_sec |-> sent_end,
                text |-> sent, words |-> << >>]>>
             \o SplitEven(seg, sentences, i + 1, sent_end)

force_split_large_segment(seg, razdel) ==
    LET sentences == split_sentences(seg.text, razdel)
    IN  IF Len(sentences) <= 1 THEN <<seg>>
        ELSE IF seg.words # << >>
             THEN SplitByWords(seg, sentences, 1, seg.start_sec)
             ELSE SplitEven(seg, sentences, 1, seg.start_sec)

\* seg_text_len > CHUNK_MAX_CHARS or seg_duration > CHUNK_MAX_SECONDS
Oversize(seg) ==
    \/ TextLen(seg.text) > CHUNK_MAX_CHARS
    \/ seg.end_sec - seg.start_sec > CHUNK_MAX_SECONDS * Ms

\* step 1 of semantic_chunk_v2
RECURSIVE ProcessSegments(_, _)
ProcessSegments(segs, razdel) ==
    IF segs = << >> THEN << >>
    ELSE (IF Oversize(Head(segs)) THEN force_split_large_segment(Head(segs), razdel)
          ELSE <<Head(segs)>>)
         \o ProcessSegments(Tail(segs), razdel)

RECURSIVE InsertByStart(_, _)
InsertByStart(sorted, s) ==
    IF sorted = << >> THEN <<s>>
    ELSE IF s.start_sec < Head(sorted).start_sec THEN <<s>> \o sorted
    ELSE <<Head(sorted)>> \o InsertByStart(Tail(sorted), s)

\* sorted(processed_segments, key=lambda s: s["start_sec"])
RECURSIVE SortByStart(_)
SortByStart(segs) ==
    IF segs = << >> THEN << >>
    ELSE InsertByStart(SortByStart(SubSeq(segs, 1, Len(segs) - 1)), Last(segs))

\* step 2: the words of the segments that have them
RECURSIVE AllWords(_)
AllWords(segs) ==
    IF segs = << >> THEN << >> ELSE Head(segs).words \o AllWords(Tail(segs))

\* step 5: a sentence found in full_text starts with the word that holds its
\* first character and ends with the word that holds its last one; a
\* sentence not found is passed over
RECURSIVE MapSentences(_, _, _)
MapSentences(sentences, text, from) ==
    IF sentences = << >> THEN << >>
    ELSE LET sent == Head(sentences)
             idx == Find(sent, text, from)
         IN  IF idx = 0 THEN MapSentences(Tail(sentences), text, from)
             ELSE <<[text |-> sent, start |-> text[idx].st,
                     end |-> text[idx + Len(sent) - 1].et]>>
                  \o MapSentences(Tail(sentences), text, idx + Len(sent))

RECURSIVE JoinTexts(_)
JoinTexts(objs) ==
    IF objs = << >> THEN << >> ELSE Head(objs).text \o JoinTexts(Tail(objs))

Chunk(start, end, text) == [start |-> start, end |-> end, text |-> text]

\* step 6: the cosine of the embeddings of sentence i and the next one, in
\* hundredths; the same text has the same embedding
Sim(sent_objs, sims, i) ==
    IF Txt(sent_objs[i].text) = Txt(sent_objs[i + 1].text) THEN 100 ELSE sims[i]

\* glen >= CHUNK_MAX_CHARS or gduration >= CHUNK_MAX_SECONDS
too_long(g) ==
    \/ g.glen >= CHUNK_MAX_CHARS
    \/ g.gend - g.gstart >= CHUNK_MAX_SECONDS * Ms

\* glen < CHUNK_MIN_CHARS or gduration < CHUNK_MIN_SECONDS
too_short(g) ==
    \/ g.glen < CHUNK_MIN_CHARS
    \/ g.gend - g.gstart < CHUNK_MIN_SECONDS * Ms

\* the group g closed as a chunk, the next group started with sentence ns
Closed(g, ns) ==
    [chunks |-> Append(g.chunks, Chunk(g.gstart, g.gend, AddStop(g.group))),
     group |-> ns.text, glen |-> TextLen(ns.text),
     gstart |-> ns.start, gend |-> ns.end]

\* sentence ns put into the group g
Grown(g, ns) ==
    [g EXCEPT !.group = @ \o ns.text,
              !.glen = @ + TextLen(ns.text) + 1,
              !.gend = ns.end]

\* the mutant of GroupStep: too_short is tested first
GroupStepShortFirst(sent_objs, sims, i, g) ==
    IF too_short(g) THEN Grown(g, sent_objs[i + 1])
    ELSE IF too_long(g) THEN Closed(g, sent_objs[i + 1])
    ELSE IF Sim(sent_objs, sims, i) < CHUNK_THRESHOLD THEN Closed(g, sent_objs[i + 1])
    ELSE Grown(g, sent_objs[i + 1])

\* step 7, one turn of the loop over sims: g is the group with the chunks
\* made so far
GroupStep(sent_objs, sims, i, g) ==
    IF too_long(g) THEN Closed(g, sent_objs[i + 1])
    ELSE IF too_short(g) THEN Grown(g, sent_objs[i + 1])
    ELSE IF Sim(sent_objs, sims, i) < CHUNK_THRESHOLD THEN Closed(g, sent_objs[i + 1])
    ELSE Grown(g, sent_objs[i + 1])

\* step 7, the loop from turn i on
RECURSIVE Group(_, _, _, _)
Group(sent_objs, sims, i, g) ==
    IF i > Len(sent_objs) - 1 THEN g
    ELSE Group(sent_objs, sims, i + 1, GroupStep(sent_objs, sims, i, g))

\* the group before the loop: the first sentence
FirstGroup(sent_objs) ==
    [chunks |-> << >>, group |-> sent_objs[1].text,
     glen |-> TextLen(sent_objs[1].text),
     gstart |-> sent_objs[1].start, gend |-> sent_objs[1].end]

\* the split of a final chunk over the maximum: every sentence gets its
\* share of the duration
RECURSIVE SplitFinal(_, _, _, _, _, _)
SplitFinal(chunks, final_sentences, current_start, total_chars, final_duration, gend) ==
    IF final_sentences = << >> THEN chunks
    ELSE LET sent == Head(final_sentences)
             upto == current_start + Share(TextLen(sent), total_chars, final_duration)
             sent_end == IF upto > gend THEN gend ELSE upto
         IN  SplitFinal(Append(chunks, Chunk(current_start, sent_end, sent)),
                        Tail(final_sentences), sent_end, total_chars, final_duration, gend)

\* prev with the text and the end of a short chunk put after it
MergeInto(prev, end, txt) == Chunk(prev.start, end, RStrip(prev.text) \o txt)

\* the final chunk of semantic_chunk_v2
FinalGroup(g, razdel) ==
    LET txt == AddStop(g.group)
        final_duration == g.gend - g.gstart
        final_sentences == split_sentences(txt, razdel)
    IN  IF g.glen > CHUNK_MAX_CHARS \/ final_duration > CHUNK_MAX_SECONDS * Ms
        THEN SplitFinal(g.chunks, final_sentences, g.gstart,
                        SumTextLen(final_sentences), final_duration, g.gend)
        ELSE IF g.glen >= CHUNK_MIN_CHARS /\ final_duration >= CHUNK_MIN_SECONDS * Ms
        THEN Append(g.chunks, Chunk(g.gstart, g.gend, txt))
        ELSE IF g.chunks # << >>
        THEN [g.chunks EXCEPT ![Len(g.chunks)] = MergeInto(@, g.gend, txt)]
        ELSE Append(g.chunks, Chunk(g.gstart, g.gend, txt))

\* whether _merge_short_chunks_v2 puts cur after prev
Mergeable(prev, cur) ==
    /\ TextLen(prev.text) + TextLen(cur.text) + 1 <= CHUNK_MAX_CHARS
    /\ cur.end - prev.start <= CHUNK_MAX_SECONDS * Ms

RECURSIVE MergeChunks(_, _, _)
MergeChunks(merged, rest, min_chars) ==
    IF rest = << >> THEN merged
    ELSE LET prev == Last(merged)
             cur == Head(rest)
         IN  IF TextLen(prev.text) < min_chars /\ Mergeable(prev, cur)
             THEN MergeChunks([merged EXCEPT ![Len(merged)] = MergeInto(prev, cur.end, cur.text)],
                              Tail(rest), min_chars)
             ELSE MergeChunks(Append(merged, cur), Tail(rest), min_chars)

\* _merge_short_chunks_v2
merge_short_chunks_v2(chunks, min_chars) ==
    IF Len(chunks) <= 1 THEN chunks
    ELSE LET merged == MergeChunks(<<Head(chunks)>>, Tail(chunks), min_chars)
             n == Len(merged)
         IN  IF /\ n > 1
                /\ TextLen(merged[n].text) < min_chars
                /\ Mergeable(merged[n - 1], merged[n])
             THEN Append(SubSeq(merged, 1, n - 2),
                         MergeInto(merged[n - 1], merged[n].end, merged[n].text))
             ELSE merged

\* _fallback_chunk_v2: one segment, or one piece of a split segment, against
\* the chunk under construction
FallbackAdd(c, s) ==
    LET slen == TextLen(s.text)
        exceeds_max == \/ c.clen + slen > CHUNK_MAX_CHARS
                       \/ s.end_sec - c.start >= CHUNK_MAX_SECONDS * Ms
        meets_min == c.clen >= CHUNK_MIN_CHARS
    IN  IF exceeds_max /\ meets_min
        THEN [chunks |-> Append(c.chunks, Chunk(c.start, c.end, AddStop(c.texts))),
              texts |-> s.text, start |-> s.start_sec, end |-> s.end_sec, clen |-> slen]
        ELSE [c EXCEPT !.texts = @ \o s.text, !.end = s.end_sec, !.clen = @ + slen + 1]

RECURSIVE FallbackAddAll(_, _)
FallbackAddAll(c, split_segs) ==
    IF split_segs = << >> THEN c
    ELSE FallbackAddAll(FallbackAdd(c, Head(split_segs)), Tail(split_segs))

\* the loop of _fallback_chunk_v2 over the segments
RECURSIVE FallbackLoop(_, _, _)
FallbackLoop(c, segs, razdel) ==
    IF segs = << >> THEN c
    ELSE LET s == Head(segs)
             flushed == IF c.texts # << >> /\ c.clen >= CHUNK_MIN_CHARS
                        THEN [chunks |-> Append(c.chunks,
                                                Chunk(c.start, c.end, AddStop(c.texts))),
                              texts |-> << >>, start |-> s.start_sec,
                              end |-> s.end_sec, clen |-> 0]
                        ELSE c
         IN  FallbackLoop(IF Oversize(s)
                          THEN FallbackAddAll(flushed, force_split_large_segment(s, razdel))
                          ELSE FallbackAdd(c, s),
                          Tail(segs), razdel)

\* the final chunk of _fallback_chunk_v2
FallbackFinal(c, razdel) ==
    LET txt == AddStop(c.texts)
        final_duration == c.end - c.start
        final_sentences == split_sentences(txt, razdel)
    IN  IF c.texts = << >> THEN c.chunks
        ELSE IF c.clen > CHUNK_MAX_CHARS \/ final_duration > CHUNK_MAX_SECONDS * Ms
        THEN SplitFinal(c.chunks, final_sentences, c.start,
                        SumTextLen(final_sentences), final_duration, c.end)
        ELSE IF c.clen >= CHUNK_MIN_CHARS
        THEN Append(c.chunks, Chunk(c.start, c.end, txt))
        ELSE IF c.chunks # << >>
        THEN [c.chunks EXCEPT ![Len(c.chunks)] = MergeInto(@, c.end, txt)]
        ELSE Append(c.chunks, Chunk(c.start, c.end, txt))

\* the chunk under construction before the loop of _fallback_chunk_v2
FallbackStart(segs) ==
    [chunks |-> << >>, texts |-> << >>,
     start |-> segs[1].start_sec, end |-> segs[1].end_sec, clen |-> 0]

fallback_chunk_v2(segs, razdel) ==
    IF segs = << >> THEN << >>
    ELSE merge_short_chunks_v2(
             FallbackFinal(FallbackLoop(FallbackStart(segs), segs, razdel), razdel),
             60)

\* what semantic_chunk_v2 returns: its chunks, or the IndexError of
\* sent_objs[0] when no sentence was found in full_text
Returned(chunks) == [done |-> TRUE, raised |-> FALSE, chunks |-> chunks]
Raised == [done |-> TRUE, raised |-> TRUE, chunks |-> << >>]

\* steps 1 to 5 of semantic_chunk_v2: the segments split and sorted, their
\* words, the sentences of the words, the sentences with their times
Segs(raw, razdel) == SortByStart(ProcessSegments(raw, razdel))
FullText(raw, razdel) == AllWords(Segs(raw, razdel))
SentObjs(raw, razdel) ==
    MapSentences(merge_short_sentences(split_sentences(FullText(raw, razdel), razdel), 40),
                 FullText(raw, razdel), 1)

\* semantic_chunk_v2 goes to _fallback_chunk_v2
TakesFallback(raw, razdel) ==
    \/ FullText(raw, razdel) = << >>
    \/ split_sentences(FullText(raw, razdel), razdel) = << >>

semantic_chunk_v2(raw, sims, razdel) ==
    LET sent_objs == SentObjs(raw, razdel)
    IN  IF raw = << >> THEN Returned(<< >>)
        ELSE IF TakesFallback(raw, razdel)
        THEN Returned(fallback_chunk_v2(Segs(raw, razdel), razdel))
        ELSE IF sent_objs = << >> THEN Raised
        ELSE IF Len(sent_objs) <= 2
        THEN Returned(<<Chunk(sent_objs[1].start, Last(sent_objs).end,
                              JoinTexts(sent_objs))>>)
        ELSE Returned(merge_short_chunks_v2(
                 FinalGroup(Group(sent_objs, sims, 1, FirstGroup(sent_objs)), razdel),
                 60))

\* --------------------------------------------- the segments of a video
\* What transcribe stores for a video whose speech is the sentences ks, one
\* after the other with a pause of Gap between them: every word of a
\* sentence of kind k takes an equal part of k.ms, the last one closes the
\* sentence. With echo the last sentence says the one before it again,
\* closing mark included.
RECURSIVE StartOf(_, _)
StartOf(ks, i) == IF i = 1 THEN 0 ELSE StartOf(ks, i - 1) + ks[i - 1].ms + Gap

RECURSIVE WordsBefore(_, _)
WordsBefore(ks, i) == IF i = 1 THEN 0 ELSE WordsBefore(ks, i - 1) + ks[i - 1].words

Sentence(ks, i, said) ==
    [j \in 1..ks[i].words |->
        [id |-> WordsBefore(ks, said) + j, len |-> WordChars,
         st |-> StartOf(ks, i) + ((j - 1) * ks[i].ms) \div ks[i].words,
         et |-> StartOf(ks, i) + (j * ks[i].ms) \div ks[i].words,
         stop |-> j = ks[i].words]]

Spoken(ks, echo) ==
    [i \in 1..Len(ks) |->
        Sentence(ks, i, IF echo /\ i = Len(ks) THEN i - 1 ELSE i)]

\* a segment of the decoder: its text, and its words when the decoder
\* gave them (transcribe.py stores words_json only for a segment with words)
RawSegment(ws, timed) ==
    [start_sec |-> Head(ws).st, end_sec |-> Last(ws).et,
     text |-> ws, words |-> IF timed THEN ws ELSE << >>]

\* the sentences put into segments: a segment ends after every sentence
\* of cuts and after the last one
RECURSIVE Segmented(_, _, _, _, _)
Segmented(sents, i, cuts, cur, timed) ==
    IF i > Len(sents) THEN << >>
    ELSE LET ws == cur \o sents[i]
         IN  IF i = Len(sents) \/ i \in cuts
             THEN <<RawSegment(ws, timed)>> \o Segmented(sents, i + 1, cuts, << >>, timed)
             ELSE Segmented(sents, i + 1, cuts, ws, timed)

\* the last sentence without its closing mark
Unclosed(sents) ==
    [sents EXCEPT ![Len(sents)] = RStrip(@)]

RawSegments(ks, cuts, timed, closed, echo) ==
    LET sents == Spoken(ks, echo)
    IN  Segmented(IF closed THEN sents ELSE Unclosed(sents), 1, cuts, << >>, timed)

\* index_video reads the segments of the video (index.py: SELECT ... ORDER
\* BY start_sec) in a process where Razdel is installed or not
read_segments ==
    /\ ~kin.read
    /\ \E n \in 1..MaxSentences :
         \E ks \in [1..n -> Kinds], cuts \in SUBSET (1..(n - 1)),
            sims \in [1..(n - 1) -> Sims],
            timed \in BOOLEAN, closed \in BOOLEAN, razdel \in BOOLEAN :
           \E echo \in {e \in BOOLEAN : e => n > 1 /\ ks[n] = ks[n - 1] /\ closed} :
             kin' = [read |-> TRUE,
                     segments |-> RawSegments(ks, cuts, timed, closed, echo),
                     sims |-> sims, razdel |-> razdel]
    /\ UNCHANGED kout
    /\ UNCHANGED <<svars, ivars, clips, found, result, xvars>>

\* chunks = semantic_chunk(segments)
semantic_chunk ==
    /\ kin.read
    /\ ~kout.done
    /\ kout' = semantic_chunk_v2(kin.segments, kin.sims, kin.razdel)
    /\ UNCHANGED kin
    /\ UNCHANGED <<svars, ivars, clips, found, result, xvars>>

\* ---------------------------------------------------------- specification
\* one step of the code shared by pool threads and force tasks
CallStep(t) ==
    \/ TranscribeSkip(t) \/ TranscribeLoad(t)
    \/ TranscribeReturn(t) \/ TranscribeRaise(t)
    \/ IndexNoSegments(t) \/ IndexChunk(t) \/ IndexWrite(t) \/ IndexRaise(t)

\* _run_queued_pipeline and _run_pipeline around the two calls
PipelineStep(t) ==
    \/ ExecutorTake(t) \/ CheckQueued(t) \/ SetProcessing(t)
    \/ AcquireOuter(t) \/ AcquireOuterImportError(t) \/ AcquireGpuLock(t)
    \/ PipelineReleaseWhisper(t) \/ ReleaseGpuLock(t)
    \/ UnwindGpuLock(t) \/ PipelineExcept(t)
    \/ SetDone(t) \/ SetError(t) \/ ReleaseOuter(t)

WorkerStep(t) ==
    \/ PipelineStep(t)
    \/ CallStep(t)

\* the _do closures around their call
ForceWrapStep(t) ==
    \/ ForceAcquireTranscribe(t) \/ ForceAcquireIndex(t) \/ ForceRelease(t)

ForceStep(t) ==
    \/ ForceWrapStep(t)
    \/ CallStep(t)

\* transcribe and index_video with what they write
JobCallStep(t) ==
    \/ JobTranscribeRefuse(t)
    \/ JobTranscribeLoad(t)
    \/ \E n \in 0..MaxChunks : JobTranscribeWrite(t, n)
    \/ JobTranscribeDecodeError(t) \/ JobTranscribeRaise(t)
    \/ JobIndexNoSegments(t) \/ JobIndexOk(t)
    \/ \E k \in 0..MaxChunks : JobIndexRaise(t, k)

QueueRequest ==
    \/ \E v \in Videos : enqueue_pipeline(v)
    \/ \E v \in Videos : queue_remove(v)
    \/ queue_clear

ForceRequest ==
    \/ \E t \in Forcers, v \in Videos : api_transcribe(t, v)
    \/ \E t \in Forcers, v \in Videos : api_index(t, v)

InitWith(g) ==
    /\ queue = << >>
    /\ tasks = << >>
    /\ sem = g
    /\ permits = g
    /\ pc = [t \in Threads |-> "idle"]
    /\ vid = [t \in Threads |-> NoVideo]
    /\ held = [t \in Threads |-> 0]
    /\ failed = [t \in Threads |-> "none"]
    /\ cache = {}
    /\ resp = [ok |-> TRUE, err |-> NoError, code |-> StatusCode(TRUE, NoError)]
    /\ InitIndex

Init == InitWith(G)

\* the queue endpoints and the worker pool
NextQueue ==
    \/ QueueRequest
    \/ \E t \in Workers : WorkerStep(t)

\* every user of the accelerator and of the registry: jobs of the pool, force
\* tasks, searches
NextGpu ==
    \/ \E v \in Videos : enqueue_pipeline(v)
    \/ \E t \in Workers : WorkerStep(t)
    \/ ForceRequest
    \/ \E t \in Forcers : ForceStep(t)
    \/ vector_search

\* index_video against the two stores, with the writers of the segments
NextIndex ==
    \/ \E t \in Indexers, v \in Videos : index_video(t, v)
    \/ \E t \in Indexers : IndexStep(t)
    \/ \E v \in Videos, n \in 0..MaxChunks : transcribe_write(v, n)
    \/ \E v \in Videos : api_reprocess(v)

\* index_video with the write lock free whenever it asks for it
IndexStepFree(t) ==
    \/ SelectSegments(t) \/ NoSegments(t)
    \/ clean_old_fts(t)
    \/ DeleteVectors(t)
    \/ UpsertVectors(t) \/ EncodeRaise(t)
    \/ upsert_fts(t)
    \/ CommitFts(t)
    \/ SetIndexed(t)

\* one index_video at a time against the catalog requests and searches in
\* one video for a query that all of its chunks match
NextStore ==
    \/ \E v \in Videos : index_video(1, v)
    \/ IndexStepFree(1)
    \/ \E v \in Videos, n \in 0..MaxChunks : transcribe_write(v, n)
    \/ \E v \in Videos : api_reprocess(v)
    \/ \E v \in Videos : api_add_video(v)
    \/ \E v \in Videos : cut_clip(v)
    \/ \E v \in Videos : api_delete_video(v)
    \/ \E v \in Videos : search({v}, Of(vectors, v), Of(fts, v))

\* the catalog entry of one video under one pool thread and one force task,
\* with what their calls write
JobVideos == {"a"}
NextJob ==
    \/ \E v \in JobVideos : reprocess(v)
    \/ PipelineStep(1) \/ JobCallStep(1)
    \/ \E t \in Forcers, v \in JobVideos : api_transcribe(t, v)
    \/ \E t \in Forcers, v \in JobVideos : api_transcribe_force(t, v)
    \/ \E t \in Forcers, v \in JobVideos : api_index(t, v)
    \/ \E t \in Forcers : ForceWrapStep(t) \/ JobCallStep(t)

\* concurrent process-pending requests, one thread of the pool, and the
\* segments a transcription writes
NextPending ==
    \/ \E r \in Requests : PendingStep(r)
    \/ WorkerStep(1)
    \/ \E v \in Videos, n \in 1..MaxChunks : transcribe_write(v, n)
    \/ queue_clear

\* one search request on a corpus
NextSearch ==
    \/ post_search
    \/ api_search

\* the chunker on the segments of one video
NextChunk ==
    \/ read_segments
    \/ semantic_chunk

\* the whole program
Next ==
    \/ NextQueue
    \/ ForceRequest
    \/ \E t \in Forcers : ForceStep(t)
    \/ vector_search
    \/ NextIndex
    \/ NextStore
    \/ NextJob
    \/ NextPending
    \/ NextSearch
    \/ \E t \in Threads : JobTranscribeNotFound(t)
    \/ NextChunk

vars == <<svars, ivars, cvars>>

Spec == Init /\ [][Next]_vars
SpecQueue == Init /\ [][NextQueue]_vars
SpecGpu == Init /\ [][NextGpu]_vars
\* the scheduler built with a semaphore of any size 1..G
InitAnyG == \E g \in 1..G : InitWith(g)
SpecG == InitAnyG /\ [][NextGpu]_vars
SpecIndex == Init /\ [][NextIndex]_vars
SpecStore == Init /\ [][NextStore]_vars
SpecJob == Init /\ [][NextJob]_vars
SpecChunk == Init /\ [][NextChunk]_vars
SpecPending == Init /\ [][NextPending]_vars
SpecSearch == Init /\ [][NextSearch]_vars

\* ==================================================================
\* Claims
\* ==================================================================
Waiting(t) == pc[t] \in {"acquire_outer", "rp_acquire", "f_acquire_t", "f_acquire_i"}
Holders == {t \in Threads : held[t] > 0}
\* the job of pool thread t has made its processing transition and has not yet
\* given back the permit of `with _gpu_semaphore`
PastProcessing(t) == pc[t] \notin {"idle", "check", "set_processing"}

\* C1: a job that went waiting -> processing reaches done or error; no
\* reachable state has the threads blocked on the semaphore for ever. Stated
\* as the absence of a semaphore deadlock: whenever a thread waits for a
\* permit, a permit is free or some holder of a permit is not itself waiting.
C1_NoSemaphoreDeadlock ==
    (\E t \in Threads : Waiting(t)) =>
        (sem > 0 \/ \E u \in Holders : ~Waiting(u))

\* C2: the status of a queue entry only moves forward along
\* waiting -> processing -> (done | error) while the entry exists.
StatusRank(st) == CASE st = "waiting" -> 0 [] st = "processing" -> 1 [] OTHER -> 2
C2_StatusMonotone ==
    [][\A v \in DOMAIN queue \cap DOMAIN queue' :
          /\ StatusRank(queue'[v].status) >= StatusRank(queue[v].status)
          /\ queue[v].status \in Terminal => queue'[v].status = queue[v].status]_vars

\* C3: enqueue_pipeline of a video_id whose entry already exists changes
\* neither the queue nor the number of submitted pipeline runs.
C3_EnqueueIdempotent ==
    [][\A v \in Videos :
          (v \in DOMAIN queue /\ enqueue_pipeline(v)) =>
              (queue' = queue /\ tasks' = tasks)]_vars

\* C4: a job whose entry was removed while waiting aborts: the worker's
\* waiting -> processing update never re-creates a queue entry.
C4_NoRecreate ==
    [][\A t \in Workers : SetProcessing(t) => DOMAIN queue' = DOMAIN queue]_vars

\* C5: queue_remove(v) answers 404 for an absent entry and 409 for a
\* processing one, leaving the queue map unchanged; otherwise it removes
\* exactly v's entry and leaves every other entry unchanged.
C5_RemoveContract ==
    [][\A v \in Videos : queue_remove(v) =>
          IF v \notin DOMAIN queue
            THEN resp'.code = 404 /\ ~resp'.ok /\ queue' = queue
          ELSE IF queue[v].status = "processing"
            THEN resp'.code = 409 /\ ~resp'.ok /\ queue' = queue
          ELSE /\ resp'.ok /\ resp'.code = 200
               /\ DOMAIN queue' = DOMAIN queue \ {v}
               /\ \A u \in DOMAIN queue' : queue'[u] = queue[u]]_vars

\* a removal was refused with 409 and the running job's entry is still there
C5_Witness ==
    /\ resp.code = 409
    /\ \E v \in DOMAIN queue : queue[v].status = "processing"
    /\ \E v \in DOMAIN queue : queue[v].status = "waiting"

\* C6: a job in which transcribe or index_video raised ends with its queue
\* entry in status error, with an error message; never in done.
C6_RaiseEndsInError ==
    [][\A t \in Workers :
          (failed[t] \in {"transcribe", "index"} /\ (SetDone(t) \/ SetError(t))) =>
              /\ queue'[vid[t]].status = "error"
              /\ queue'[vid[t]].error # NoError]_vars

C8_NoCoResidence == ~("whisper" \in cache /\ cache \cap {"embed", "chunk"} # {})

\* C9: whenever index_video(v) returns its summary (the run succeeded), the
\* chunk ids the vector store holds for v, the chunk ids the FTS table holds
\* for v, and the ids of the chunks of this run are the same set, whatever
\* the two stores held for v when the run started.
C9_IndexRestoresConsistency ==
    [][\A t \in Indexers :
         SetIndexed(t) =>
           /\ Of(vectors', ivid[t]) = ChunkIds(ivid[t], rows[t])
           /\ Of(fts', ivid[t]) = ChunkIds(ivid[t], rows[t])]_vars

\* C10: in every state, a video whose catalog status is indexed has the same
\* chunk ids in the vector store and in the FTS table (re-indexing replaces
\* the chunk set of the video atomically for every observer).
C10_IndexedStoresAgree ==
    \A v \in Videos :
        status[v] = "indexed" => Of(vectors, v) = Of(fts, v)

\* C11: a run of index_video(v) that follows a run which returned its summary
\* on the same raw segments, with no other run of v in between or alongside,
\* returns with the keys the two stores held for v when it was called.
C11_IndexIdempotent ==
    [][\A t \in Indexers :
         (SetIndexed(t) /\ before[t].set) =>
           /\ Of(vectors', ivid[t]) = before[t].vec
           /\ Of(fts', ivid[t]) = before[t].fts]_vars

NoRecord(v) ==
    /\ status[v] = NoRow
    /\ segments[v] = 0
    /\ v \notin clips
    /\ Of(fts, v) = {}
    /\ Of(vectors, v) = {}

\* C12: right after DELETE /videos/{id} no row of videos, segments, clips or
\* segments_fts and no record of the vector store carries the video_id.
C12_DeleteRemovesAll ==
    [][\A v \in Videos : api_delete_video(v) => NoRecord(v)']_vars

\* C13: every result search returns has a record in the vector store to take
\* its timestamps from; none is returned with start = end = 0.0.
C13_NoHitWithoutRecord == \A h \in found : h.stamped

\* the transcription of the job of thread t failed: it raised, or it
\* returned its error message
TranscribeFailed(t) ==
    \/ failed[t] = "transcribe"
    \/ failed[t] = "none" /\ result[t] = MsgDecode

\* C14: when a pipeline job whose transcription or indexing failed ends, the
\* status of its video is error_transcribe or error_index respectively and
\* its queue entry is error.
C14_FailureSetsErrorStatus ==
    [][\A t \in Workers :
         (SetDone(t) \/ SetError(t)) =>
           /\ TranscribeFailed(t) =>
                /\ status'[vid[t]] = "error_transcribe"
                /\ queue'[vid[t]].status = "error"
           /\ failed[t] = "index" =>
                /\ status'[vid[t]] = "error_index"
                /\ queue'[vid[t]].status = "error"]_vars

\* the moves of videos.status the claim allows
StatusMove(old, new) ==
    \/ new = old
    \/ new = "added"
    \/ old = "added" /\ new = "transcribed"
    \/ old = "transcribed" /\ new = "indexed"

\* C15: the status of a video only moves added -> transcribed -> indexed or
\* back to added; in particular never from indexed to transcribed.
C15_StatusAdvances ==
    [][\A v \in Videos : StatusMove(status[v], status'[v])]_vars

\* C16: a transcribe call that finds segments for its video returns its
\* refusal and leaves the segments and the status of every video as they are.
C16_TranscribeRefuses ==
    [][\A t \in Threads :
         (/\ pc[t] = "t_start"
          /\ status[vid[t]] # NoRow
          /\ segments[vid[t]] > 0
          /\ pc'[t] # pc[t]) =>
           /\ pc'[t] = AfterTranscribe(t)
           /\ result'[t] = MsgExists
           /\ segments' = segments
           /\ status' = status]_vars

\* C16: a pool thread is back from a transcribe that refused, on a video
\* that is indexed and has its segments
C16_Witness ==
    \E t \in Workers :
        /\ pc[t] = "rp_release_whisper"
        /\ result[t] = MsgExists
        /\ segments[vid[t]] > 0
        /\ status[vid[t]] = "indexed"

\* len(c.text) and c.end - c.start of a chunk
Chars(c) == TextLen(c.text)
Duration(c) == c.end - c.start

\* C17: every chunk the chunker returns has at most CHUNK_MAX_CHARS
\* characters and lasts at most CHUNK_MAX_SECONDS.
C17_ChunksWithinMax ==
    \A i \in 1..Len(kout.chunks) :
        /\ Chars(kout.chunks[i]) <= CHUNK_MAX_CHARS
        /\ Duration(kout.chunks[i]) <= CHUNK_MAX_SECONDS * Ms

\* C18: every chunk but the last has at least CHUNK_MIN_CHARS characters
\* and lasts at least CHUNK_MIN_SECONDS.
C18_ChunksReachMin ==
    \A i \in 1..(Len(kout.chunks) - 1) :
        /\ Chars(kout.chunks[i]) >= CHUNK_MIN_CHARS
        /\ Duration(kout.chunks[i]) >= CHUNK_MIN_SECONDS * Ms

\* C19: the chunks come in the order of their starts and a chunk ends
\* before the next one starts.
C19_ChunksInOrder ==
    \A i \in 1..(Len(kout.chunks) - 1) :
        /\ kout.chunks[i].start <= kout.chunks[i + 1].start
        /\ kout.chunks[i].end <= kout.chunks[i + 1].start

\* the words the raw segments of the video carry
SourceWords == AllWords(kin.segments)
Near(a, b) == a - b <= 10 /\ b - a <= 10

\* C20: when the segments have word timestamps, every chunk starts within
\* 10 ms of the start of a word and ends within 10 ms of the end of a word.
C20_ChunksOnWords ==
    SourceWords # << >> =>
        \A i \in 1..Len(kout.chunks) :
            /\ \E j \in 1..Len(SourceWords) :
                   Near(kout.chunks[i].start, SourceWords[j].st)
            /\ \E j \in 1..Len(SourceWords) :
                   Near(kout.chunks[i].end, SourceWords[j].et)

\* the sentences of the segments read, and the group at the start of turn i
\* of the grouping loop
ReadObjs == SentObjs(kin.segments, kin.razdel)
GroupBefore(i) == Group(SubSeq(ReadObjs, 1, i), kin.sims, 1, FirstGroup(ReadObjs))
\* the chunker has returned and went through the grouping loop
Grouped ==
    /\ kout.done
    /\ ~TakesFallback(kin.segments, kin.razdel)
    /\ Len(ReadObjs) > 2

\* C25: in every turn of the grouping loop a group that is too long is closed
\* and the next sentence starts a new group, whether or not the group is too
\* short as well; a group grows only when it is not too long.
C25_TooLongFirst ==
    Grouped =>
        \A i \in 1..(Len(ReadObjs) - 1) :
            LET g == GroupBefore(i)
                h == GroupStep(ReadObjs, kin.sims, i, g)
            IN  /\ too_long(g) => h = Closed(g, ReadObjs[i + 1])
                /\ h = Grown(g, ReadObjs[i + 1]) => ~too_long(g)

\* C25: the loop has met a group that is too long and too short at once
C25_Witness ==
    /\ Grouped
    /\ \E i \in 1..(Len(ReadObjs) - 1) :
           too_long(GroupBefore(i)) /\ too_short(GroupBefore(i))

\* a chunk within the two maxima
WithinMax(c) ==
    Chars(c) <= CHUNK_MAX_CHARS /\ Duration(c) <= CHUNK_MAX_SECONDS * Ms

\* what the claim has the finalization make of a trailing group that is
\* short and not over the maximum, with text txt ending at end, after chunks
MergedIfWithin(chunks, start, end, txt) ==
    IF WithinMax(MergeInto(Last(chunks), end, txt))
    THEN [chunks EXCEPT ![Len(chunks)] = MergeInto(@, end, txt)]
    ELSE Append(chunks, Chunk(start, end, txt))

\* the trailing group of the word-timestamp path and of the fallback path
LastGroup == Group(ReadObjs, kin.sims, 1, FirstGroup(ReadObjs))
LastFallback ==
    FallbackLoop(FallbackStart(Segs(kin.segments, kin.razdel)),
                 Segs(kin.segments, kin.razdel), kin.razdel)

\* C26: a trailing group that is short, not over the maximum, and has a
\* chunk before it is merged into that chunk when the merged chunk is within
\* CHUNK_MAX_CHARS and CHUNK_MAX_SECONDS, and is a chunk of its own
\* otherwise, on the word-timestamp path and on the fallback path.
C26_MergeRespectsMax ==
    /\ Grouped =>
         LET g == LastGroup
         IN  (/\ too_short(g)
              /\ g.glen <= CHUNK_MAX_CHARS
              /\ g.gend - g.gstart <= CHUNK_MAX_SECONDS * Ms
              /\ g.chunks # << >>) =>
                FinalGroup(g, kin.razdel)
                    = MergedIfWithin(g.chunks, g.gstart, g.gend, AddStop(g.group))
    /\ (kout.done /\ kin.segments # << >>
        /\ TakesFallback(kin.segments, kin.razdel)) =>
         LET c == LastFallback
         IN  (/\ c.texts # << >>
              /\ c.clen < CHUNK_MIN_CHARS
              /\ c.end - c.start <= CHUNK_MAX_SECONDS * Ms
              /\ c.chunks # << >>) =>
                FallbackFinal(c, kin.razdel)
                    = MergedIfWithin(c.chunks, c.start, c.end, AddStop(c.texts))
\* C27: a queued pipeline job holds a permit of the accelerator semaphore
\* without interruption from before transcribe starts until index_video has
\* returned: at every position of a pool thread after `with _gpu_semaphore`
\* was entered and before it is left, the thread holds at least one permit.
InsideOuter(t) == pc[t] \notin {"idle", "check", "set_processing", "acquire_outer"}
C27_TokenHeldThroughJob ==
    \A t \in Workers : InsideOuter(t) => held[t] >= 1
\* transcribe has returned, gpu_lock was given back, index_video is about to run
C27_Witness ==
    \E t \in Workers : pc[t] = "i_start" /\ held[t] = 1
\* C28: at any time at most one execution of the pipeline (transcribe followed
\* by index_video) is in flight for a video: no two pool threads are inside
\* _run_pipeline with the same video_id.
InPipeline(t) ==
    /\ InsideOuter(t)
    /\ pc[t] \notin {"set_done", "set_error", "release_outer"}
C28_OneExecutionPerVideo ==
    \A t, u \in Workers :
        (t # u /\ InPipeline(t) /\ InPipeline(u)) => vid[t] # vid[u]
\* C30: index_video(v) on a video without raw segments changes nothing: from
\* the call to the return on empty rows the vector records, the FTS rows and
\* the status of every video are as they were; the call only returns.
IndexCalled(t) == ipc[t] = "idle" /\ ipc'[t] = "select"
IndexReturnsEmpty(t) ==
    /\ ipc[t] = "select"
    /\ segments[ivid[t]] = 0
    /\ ipc'[t] = "idle"
C30_IndexWithoutSegments ==
    [][\A t \in Indexers :
          (IndexCalled(t) \/ IndexReturnsEmpty(t)) =>
              /\ vectors' = vectors
              /\ fts' = fts
              /\ status' = status
              /\ segments' = segments]_vars
\* the call stands at its SELECT on a video that has no segments and still has
\* records in both stores
C30_Witness ==
    \E t \in Indexers :
        /\ ipc[t] = "select"
        /\ segments[ivid[t]] = 0
        /\ Of(vectors, ivid[t]) # {}
        /\ Of(fts, ivid[t]) # {}
        /\ status[ivid[t]] = "added"
\* C29: process-pending enqueues a video only when it has no entry in the
\* queue, so no request of process-pending submits a video to the pool
\* while the video has an entry in the queue.
PendingSubmits(r) == pp[r].at = "enqueue" /\ pp'[r].at = "loop"
C29_PendingSubmitsOnce ==
    [][\A r \in Requests :
          PendingSubmits(r) => pp[r].cur \notin DOMAIN queue]_vars
\* process-pending enqueues a video only when it has no raw segments
C29_PendingWithoutSegments ==
    [][\A r \in Requests :
          PendingSubmits(r) => segments[pp[r].cur] = 0]_vars
\* what the request of the state handed to search, and the two lists search
\* got from the stores
AskedFilter == RouteFilter(sreq.video_ids, sreq.tags)
VecList == VectorResults(sreq.dense, sreq.top_k * 3, AskedFilter)
FtsList == FtsResults(sreq.rows, sreq.metas, sreq.top_k * 3, AskedFilter)
SegmentIds(lst) == [i \in 1..Len(lst) |-> lst[i].segment_id]

\* C21: search(q, k) returns at most k results and their scores are
\* non-increasing in output order, with and without the lexical list.
C21_AtMostKSorted ==
    sres.done =>
        /\ Len(sres.results) <= sreq.top_k
        /\ \A i \in 1..(Len(sres.results) - 1) :
              sres.results[i].score >= sres.results[i + 1].score
\* a fused list of results of two videos, longer than top_k, cut to top_k
C21_Witness ==
    /\ sres.done
    /\ FtsList # << >>
    /\ sreq.top_k = 2
    /\ Len(sres.results) = 2
    /\ Len(deduplicate_overlapping(rrf_merge(VecList, FtsList))) > 2
    /\ sres.results[1].score > sres.results[2].score
    /\ sres.results[1].video_id # sres.results[2].video_id

\* C22: no two results of one video overlap by 50% or more of the duration
\* of the one that comes later in the output (the candidate of the greedy
\* pass, which runs in descending score), the threshold being inclusive.
OverlapsHalf(c, k) ==
    /\ Overlap(c, k) > 0
    /\ 2 * Overlap(c, k) >= c.end_sec - c.start_sec
C22_NoOverlappingResults ==
    sres.done =>
        \A i, j \in 1..Len(sres.results) :
            (i < j /\ sres.results[i].video_id = sres.results[j].video_id)
                => ~OverlapsHalf(sres.results[j], sres.results[i])
\* the same for the results that last a tenth of a second or more
C22_FromATenth ==
    sres.done =>
        \A i, j \in 1..Len(sres.results) :
            (/\ i < j
             /\ sres.results[i].video_id = sres.results[j].video_id
             /\ sres.results[j].end_sec - sres.results[j].start_sec >= Cs \div 10)
                => ~OverlapsHalf(sres.results[j], sres.results[i])

\* C23: the dense ranking [A, B, C] and the lexical ranking [C, B, D] fuse
\* with K = 60 into the order C, B, A, D (C: 1/63 + 1/61, B: 1/62 + 1/62,
\* A: 1/61, D: 1/63), and search returns that order, cut to top_k, when no
\* two of the results overlap in time.
RankingsOfS3 ==
    /\ sres.done
    /\ SegmentIds(VecList) = <<"A", "B", "C">>
    /\ SegmentIds(FtsList) = <<"C", "B", "D">>
Apart(lst) ==
    \A i, j \in 1..Len(lst) : i # j => Overlap(lst[i], lst[j]) = 0
C23_FusedOrder ==
    RankingsOfS3 =>
        /\ SegmentIds(rrf_merge(VecList, FtsList)) = <<"C", "B", "A", "D">>
        /\ Apart(rrf_merge(VecList, FtsList)) =>
              SegmentIds(sres.results) = Take(<<"C", "B", "A", "D">>, sreq.top_k)
C23_Witness ==
    /\ RankingsOfS3
    /\ Apart(rrf_merge(VecList, FtsList))
    /\ sreq.top_k = 4
    /\ SegmentIds(sres.results) = <<"C", "B", "A", "D">>
\* C23 as the specification states it: the fused order is B, C, A, D
C23_AsStated ==
    RankingsOfS3 =>
        /\ SegmentIds(rrf_merge(VecList, FtsList)) = <<"B", "C", "A", "D">>
        /\ Apart(rrf_merge(VecList, FtsList)) =>
              SegmentIds(sres.results) = Take(<<"B", "C", "A", "D">>, sreq.top_k)

\* C24: when the request carries a filter (video_ids, or the channel names
\* of filter_tags, or both), every result is of a video of the filter; a
\* filter that matches no video gives no results.
FilterGiven == sreq.video_ids.given \/ sreq.tags.given
FilterVideos ==
    IF sreq.tags.given
    THEN IF sreq.video_ids.given
         THEN video_ids_from_channels(sreq.tags.ids) \cap sreq.video_ids.ids
         ELSE video_ids_from_channels(sreq.tags.ids)
    ELSE sreq.video_ids.ids
C24_ResultsInFilter ==
    (sres.done /\ FilterGiven) =>
        \A i \in 1..Len(sres.results) : sres.results[i].video_id \in FilterVideos
\* the same for the filters that match a video
C24_NonEmptyFilter ==
    (sres.done /\ FilterGiven /\ FilterVideos # {}) =>
        \A i \in 1..Len(sres.results) : sres.results[i].video_id \in FilterVideos
====
